---- MODULE Spec2Model ----
(***************************************************************************)
(* Order lifecycle of the book-shop bot (src/main.py, src/shop.py).        *)
(*                                                                         *)
(* The persistent store is the three tables of init_db (users, orders,     *)
(* products); the in-memory state is the ConversationHandler state and the *)
(* user_data dict of every chat.  One action models one handler run to     *)
(* completion on one inbound update.                                       *)
(*                                                                         *)
(* Representation.                                                         *)
(*  - A callback token is the sequence of its "_"-separated segments, so   *)
(*    that data.split("_")[k] is tok[k+1] and a prefix test is a test on   *)
(*    the leading segments.  Product ids are segment sequences as well:    *)
(*    "math_book" is <<"math", "book">>.                                   *)
(*  - Numbers travel in tokens and texts as numerals (strings); int() and  *)
(*    the f-string formatting are the tables PyInt and PyStr.              *)
(*  - Money is in cents.                                                   *)
(*  - A Python dict is a function whose domain is the set of keys present; *)
(*    reading an absent key raises KeyError.                               *)
(*  - A handler that raises leaves the conversation state as it was (the   *)
(*    dispatcher stores a new state only when the callback returns).       *)
(*                                                                         *)
(* Dispatch.  Route follows the registration order of main(): the command  *)
(* handlers, then the ConversationHandler (entry points first, since       *)
(* allow_reentry is set, then the handlers of the current state), then the *)
(* callback handlers by pattern, then the photo handler and the first text *)
(* handler.  The one place where Route follows the handler and not the     *)
(* registration is the product tap: select_product is run on every token   *)
(* its own branch accepts (startswith "product_"); what the entry-point    *)
(* pattern does with such a token is EntryPointMatches.                    *)
(*                                                                         *)
(* Specifications.  All start from the fresh database and run the same     *)
(* handlers; they differ in the updates that are sent.                     *)
(*  - Spec: a buyer places orders (/start, the conversation, every outcome *)
(*    of confirm_order, restarts of the process).                          *)
(*  - SpecLifecycle: orders placed along the plain path are paid, proved,  *)
(*    decided and annotated, across a change of the catalog.               *)
(*  - SpecAdmin: the administrator's command and buttons, sent by the      *)
(*    administrator and by a buyer.                                        *)
(*  - SpecConversation: the conversation alone, on every catalog entry and *)
(*    a wider sample of texts.                                             *)
(* SpecConsole starts from the database a history of orders has left       *)
(* (InitConsole) and sends one request of the administrator's order list,  *)
(* filter menu or export menu.                                             *)
(***************************************************************************)
EXTENDS Integers, Sequences, FiniteSets, TLC

VARIABLES
    variant,    \* which program runs: "main" (src/main.py) or "shop" (src/shop.py)
    catalog,    \* PRODUCTS as loaded by the running process
    users,      \* table users: user_id -> row (domain = stored user ids)
    orders,     \* table orders: sequence of rows, order_id = position
    products,   \* table products: product name -> total_sold
    conv,       \* ConversationHandler state of each chat (END = none)
    user_data,  \* context.user_data of each chat
    updates,    \* number of UPDATE statements applied to the orders table
    last,       \* what the handler of the last update did, for the observed handlers
    progress    \* how far the buyer is through the Math Book scenario of the spec

vars == <<variant, catalog, users, orders, products, conv, user_data, updates, last, progress>>

-----------------------------------------------------------------------------
(* Bounds *)

MaxOrders == 2
MaxUpdates == 2
MaxStored == 23

\* The largest number of pages a pagination keyboard is built for.
MaxPages == 14

-----------------------------------------------------------------------------
(* Configuration, src/main.py:26-48 *)

ADMIN_ID == 1273972944

Buyers == {1001}

Users == {ADMIN_ID} \cup Buyers

PRODUCTS ==
    (<<"math", "book">> :> [name |-> "Math Book", price |-> 170, emoji |-> "ruler"]) @@
    (<<"human", "society">> :> [name |-> "Human & Society", price |-> 199, emoji |-> "people"]) @@
    (<<"business">> :> [name |-> "Principle of Business", price |-> 199, emoji |-> "briefcase"]) @@
    (<<"computer">> :> [name |-> "Computer Book", price |-> 250, emoji |-> "laptop"])

\* PRODUCTS after a maintainer has edited one price and restarted the bot.
PRODUCTS_EDITED ==
    [pid \in DOMAIN PRODUCTS |->
        IF pid = <<"business">> THEN [PRODUCTS[pid] EXCEPT !.price = 249] ELSE PRODUCTS[pid]]

Catalogs == {PRODUCTS, PRODUCTS_EDITED}

NAME == 0
GROUP == 1
PHONE == 2
QUANTITY == 3
CONFIRMATION == 4
END == -1

NULL == "NULL"

-----------------------------------------------------------------------------
(* Conversions *)

\* int(s) on the sample numerals; every other text raises ValueError.
IntLiteral ==
    ("-1" :> -1) @@ ("0" :> 0) @@ ("1" :> 1) @@ ("2" :> 2) @@ ("3" :> 3) @@
    ("4" :> 4) @@ ("5" :> 5) @@ ("6" :> 6) @@ ("7" :> 7) @@ ("8" :> 8) @@
    ("9" :> 9) @@ ("10" :> 10) @@ ("11" :> 11) @@ ("12" :> 12) @@ ("13" :> 13) @@
    ("14" :> 14) @@ ("15" :> 15) @@ ("16" :> 16) @@ ("17" :> 17) @@
    ("50" :> 50) @@ ("51" :> 51)

IsInt(s) == s \in DOMAIN IntLiteral

PyInt(s) == IntLiteral[s]

\* f"{n}" for an order id.
PyStr(n) == CHOOSE s \in DOMAIN IntLiteral : IntLiteral[s] = n

\* dict operations
Has(d, k) == k \in DOMAIN d

Put(d, k, v) == [x \in DOMAIN d \cup {k} |-> IF x = k THEN v ELSE d[x]]

Pop(d, k) == [x \in DOMAIN d \ {k} |-> d[x]]

-----------------------------------------------------------------------------
(* Persistence gateway *)

Db == [users |-> users, orders |-> orders, products |-> products]

add_user(db, user_id) ==
    IF user_id \in DOMAIN db.users
    THEN db
    ELSE [db EXCEPT !.users = Put(@, user_id,
            [phone |-> NULL, group_name |-> NULL, total_orders |-> 0, total_spent |-> 0])]

update_user_info(db, user_id, group_name, phone) ==
    [db EXCEPT !.users =
        [w \in DOMAIN @ |->
            IF w = user_id
            THEN [@[w] EXCEPT !.group_name = group_name, !.phone = phone]
            ELSE @[w]]]

\* The three statements of create_order, in order, on the connection's
\* open transaction.
InsertOrder(db, user_id, product_name, quantity, total_price) ==
    [db EXCEPT !.orders = Append(@,
        [order_id |-> Len(@) + 1, user_id |-> user_id, product_name |-> product_name,
         quantity |-> quantity, total_price |-> total_price, status |-> "pending",
         payment_method |-> NULL, payment_proof |-> NULL, admin_notes |-> NULL])]

UpdateUserStats(db, user_id, total_price) ==
    [db EXCEPT !.users =
        [w \in DOMAIN @ |->
            IF w = user_id
            THEN [@[w] EXCEPT !.total_orders = @ + 1, !.total_spent = @ + total_price]
            ELSE @[w]]]

UpdateProductStats(db, product_name, quantity) ==
    [db EXCEPT !.products =
        [n \in DOMAIN @ |-> IF n = product_name THEN @[n] + quantity ELSE @[n]]]

\* failAt = 0: every statement and the commit succeed.  failAt = k in 1..3:
\* statement k raises, or the process stops before it; failAt = 4: so does
\* conn.commit().  The function is left without commit, the connection is
\* dropped and its transaction rolled back.
DbFailPoints == 0 .. 4

\* create_order on a connection that persists each statement as it runs.
create_order_autocommit(db, user_id, product_name, quantity, total_price, failAt) ==
    LET s1 == InsertOrder(db, user_id, product_name, quantity, total_price)
        s2 == UpdateUserStats(s1, user_id, total_price)
        s3 == UpdateProductStats(s2, product_name, quantity)
    IN  [db |-> CASE failAt = 1 -> db [] failAt = 2 -> s1 [] failAt = 3 -> s2 [] OTHER -> s3,
         raised |-> failAt # 0,
         order_id |-> Len(db.orders) + 1]

create_order(db, user_id, product_name, quantity, total_price, failAt) ==
    LET s1 == InsertOrder(db, user_id, product_name, quantity, total_price)
        s2 == UpdateUserStats(s1, user_id, total_price)
        s3 == UpdateProductStats(s2, product_name, quantity)
    IN  [db |-> IF failAt = 0 THEN s3 ELSE db,
         raised |-> failAt # 0,
         order_id |-> Len(db.orders) + 1]

\* update_order_payment with the total recomputed from the price list in
\* force when the payment is recorded.
update_order_payment_repriced(db, order_id, payment_method, payment_proof) ==
    [db EXCEPT !.orders =
        [i \in DOMAIN @ |->
            IF @[i].order_id = order_id
            THEN [@[i] EXCEPT !.payment_method = payment_method,
                              !.payment_proof = payment_proof,
                              !.status = "awaiting_verification",
                              !.total_price = db.orders[i].quantity *
                                  (CHOOSE c \in {catalog[pid].price : pid \in
                                      {q \in DOMAIN catalog :
                                          catalog[q].name = db.orders[i].product_name}} : TRUE)]
            ELSE @[i]]]

\* UPDATE orders SET payment_method, payment_proof, status = 'awaiting_verification'
\* WHERE order_id = ?   (no row matches an id that is not stored)
update_order_payment(db, order_id, payment_method, payment_proof) ==
    [db EXCEPT !.orders =
        [i \in DOMAIN @ |->
            IF @[i].order_id = order_id
            THEN [@[i] EXCEPT !.payment_method = payment_method,
                              !.payment_proof = payment_proof,
                              !.status = "awaiting_verification"]
            ELSE @[i]]]

\* update_order_status with AND status NOT IN ('rejected', 'completed').
update_order_status_guarded(db, order_id, status, notes) ==
    [db EXCEPT !.orders =
        [i \in DOMAIN @ |->
            IF @[i].order_id = order_id /\ @[i].status \notin {"rejected", "completed"}
            THEN [@[i] EXCEPT !.status = status,
                              !.admin_notes = IF notes # NULL THEN notes ELSE @]
            ELSE @[i]]]

\* UPDATE orders SET status = ?, admin_notes = ? WHERE order_id = ?
update_order_status(db, order_id, status, notes) ==
    [db EXCEPT !.orders =
        [i \in DOMAIN @ |->
            IF @[i].order_id = order_id
            THEN [@[i] EXCEPT !.status = status,
                              !.admin_notes = IF notes # NULL THEN notes ELSE @]
            ELSE @[i]]]

\* UPDATE orders SET admin_notes = ? without the WHERE clause.
update_order_note_everywhere(db, order_id, note) ==
    [db EXCEPT !.orders = [i \in DOMAIN @ |-> [@[i] EXCEPT !.admin_notes = note]]]

\* UPDATE orders SET admin_notes = ? WHERE order_id = ?   (handle_admin_note)
update_order_note(db, order_id, note) ==
    [db EXCEPT !.orders =
        [i \in DOMAIN @ |->
            IF @[i].order_id = order_id THEN [@[i] EXCEPT !.admin_notes = note] ELSE @[i]]]

\* get_user_orders: the user's rows, newest first.
\* get_user_orders with ORDER BY order_date ASC.
get_user_orders_oldest_first(db, user_id) ==
    SelectSeq(db.orders, LAMBDA o : o.user_id = user_id)

get_user_orders(db, user_id) ==
    LET RECURSIVE Newest(_)
        Newest(i) ==
            IF i = 0 THEN <<>>
            ELSE IF db.orders[i].user_id = user_id
                 THEN <<db.orders[i]>> \o Newest(i - 1)
                 ELSE Newest(i - 1)
    IN  Newest(Len(db.orders))

-----------------------------------------------------------------------------
(* Administrator console: the queries behind the order list *)

ORDERS_PER_PAGE == 10

\* s.split("_") on the status and period names.
Segments(s) == IF s = "awaiting_verification" THEN <<"awaiting", "verification">> ELSE <<s>>

\* Telegram first names, which add_user stores in users.first_name and
\* nothing updates afterwards.
FirstNames == (1001 :> "Dara") @@ (1002 :> "Sok") @@ (ADMIN_ID :> "Admin")

\* x LIKE '%q%' on the texts of the model.
Substrings ==
    {<<"Math Book", "Math">>, <<"Principle of Business", "Business">>,
     <<"B2", "2">>, <<"A1", "1">>}

Like(s, q) == s # NULL /\ (s = q \/ <<s, q>> \in Substrings)

\* order_id LIKE '%q%': the decimal numeral of the id (below 100) against a
\* one-digit numeral q.
IdLike(id, q) ==
    /\ IsInt(q) /\ PyInt(q) >= 0 /\ PyInt(q) <= 9
    /\ (id % 10 = PyInt(q) \/ (id >= 10 /\ (id \div 10) % 10 = PyInt(q)))

\* The status and period conditions shared by get_orders_count,
\* get_orders_paginated and export_to_excel.  order_date is kept as the day
\* of the order relative to the day of the query (0 = today); a status_filter
\* is the sequence of its "_"-separated segments, NULL is None.
StatusCondition(o, status_filter) ==
    (status_filter # NULL /\ status_filter # <<>> /\ status_filter # <<"all">>)
        => Segments(o.status) = status_filter

DateCondition(o, date_filter) ==
    CASE date_filter = "today" -> o.order_date = 0
      [] date_filter = "week"  -> o.order_date >= -7
      [] date_filter = "month" -> o.order_date >= -30
      [] OTHER -> TRUE

get_orders_count(db, status_filter, date_filter) ==
    Cardinality({i \in DOMAIN db.orders :
        StatusCondition(db.orders[i], status_filter)
        /\ DateCondition(db.orders[i], date_filter)})

\* WHERE clause of get_orders_paginated on the join of orders and users.
SearchCondition(db, o, search_query) ==
    (search_query # NULL /\ search_query # "")
        => \/ IdLike(o.order_id, search_query)
           \/ Like(FirstNames[o.user_id], search_query)
           \/ Like(db.users[o.user_id].group_name, search_query)
           \/ Like(o.product_name, search_query)

Listed(db, o, status_filter, date_filter, search_query) ==
    /\ o.user_id \in DOMAIN db.users
    /\ StatusCondition(o, status_filter)
    /\ DateCondition(o, date_filter)
    /\ SearchCondition(db, o, search_query)

\* ORDER BY o.order_date DESC: the timestamps grow with the order id.
ListedNewestFirst(db, status_filter, date_filter, search_query) ==
    LET RECURSIVE Newest(_)
        Newest(i) ==
            IF i = 0 THEN <<>>
            ELSE IF Listed(db, db.orders[i], status_filter, date_filter, search_query)
                 THEN <<db.orders[i]>> \o Newest(i - 1)
                 ELSE Newest(i - 1)
    IN  Newest(Len(db.orders))

Min(a, b) == IF a < b THEN a ELSE b

Max(a, b) == IF a > b THEN a ELSE b

\* LIMIT ORDERS_PER_PAGE OFFSET (page - 1) * ORDERS_PER_PAGE; SQLite reads
\* a negative OFFSET as 0.
get_orders_paginated(db, page, status_filter, date_filter, search_query) ==
    LET all == ListedNewestFirst(db, status_filter, date_filter, search_query)
        offset == Max(0, (page - 1) * ORDERS_PER_PAGE)
    IN  SubSeq(all, offset + 1, Min(Len(all), offset + ORDERS_PER_PAGE))

\* export_to_excel with LEFT JOIN users.
export_to_excel_left_join(db, status_filter, date_filter) ==
    LET kept == SelectSeq(db.orders, LAMBDA o :
                    /\ StatusCondition(o, status_filter)
                    /\ DateCondition(o, date_filter))
    IN  [k \in 1 .. Len(kept) |-> kept[Len(kept) + 1 - k]]

\* export_to_excel: the rows of the sheet, orders JOIN users under the status
\* and period conditions, ORDER BY o.order_date DESC without LIMIT.
export_to_excel(db, status_filter, date_filter) ==
    LET kept == SelectSeq(db.orders, LAMBDA o :
                    /\ o.user_id \in DOMAIN db.users
                    /\ StatusCondition(o, status_filter)
                    /\ DateCondition(o, date_filter))
    IN  [k \in 1 .. Len(kept) |-> kept[Len(kept) + 1 - k]]

\* math.ceil(n / ORDERS_PER_PAGE)
Ceil(n) == (n + ORDERS_PER_PAGE - 1) \div ORDERS_PER_PAGE

\* show_admin_orders: what the administrator is shown.  result is
\* "no_orders" (the "No orders found" message), "list" (the page with its
\* keyboard) or "raised" (the row loop takes len() of a group that is NULL).
\* The empty listing with the period looked at before the status.
no_orders_text_period_first(status_filter, date_filter, search_query) ==
    IF search_query # NULL /\ search_query # "" THEN "search"
    ELSE IF date_filter # NULL /\ date_filter # "" THEN "period"
    ELSE IF status_filter # <<"all">> THEN "status"
    ELSE "plain"

\* Which filter the text of the empty listing names: if search_query / elif
\* status_filter != 'all' / elif date_filter, else none.
no_orders_text(status_filter, date_filter, search_query) ==
    IF search_query # NULL /\ search_query # "" THEN "search"
    ELSE IF status_filter # <<"all">> THEN "status"
    ELSE IF date_filter # NULL /\ date_filter # "" THEN "period"
    ELSE "plain"

show_admin_orders(db, page, status_filter, date_filter, search_query) ==
    LET total_orders == get_orders_count(db, status_filter, date_filter)
        total_pages == Max(1, Ceil(total_orders))
        shown == IF page > total_pages THEN total_pages ELSE page
        rows == get_orders_paginated(db, shown, status_filter, date_filter, search_query)
        ids == [k \in DOMAIN rows |-> rows[k].order_id]
    IN  [result |-> IF Len(rows) = 0 THEN "no_orders"
                    ELSE IF \E k \in DOMAIN rows : db.users[rows[k].user_id].group_name = NULL
                    THEN "raised"
                    ELSE "list",
         page |-> shown, total_pages |-> total_pages, total_orders |-> total_orders,
         window |-> ids,
         empty |-> IF Len(rows) = 0
                   THEN no_orders_text(status_filter, date_filter, search_query)
                   ELSE ""]

-----------------------------------------------------------------------------
(* Inbound updates and the tokens of the keyboards *)

EmptyDict == [k \in {} |-> 0]

Callback(tok) == [kind |-> "callback", data |-> tok, text |-> ""]

Command(c) == [kind |-> "command", data |-> <<>>, text |-> c]

Text(t) == [kind |-> "text", data |-> <<>>, text |-> t]

Photo == [kind |-> "photo", data |-> <<>>, text |-> ""]

\* The reply-keyboard button that opens the shop (get_main_keyboard).
BUY_BOOKS == "buy books"

\* callback_data=f"product_{pid}"
ProductToken(pid) == <<"product">> \o pid

\* callback_data of get_payment_keyboard(order_id)
PayKhqrToken(order_id) == <<"pay", "khqr", PyStr(order_id)>>

PayCashToken(order_id) == <<"pay", "cash", PyStr(order_id)>>

UploadProofToken(order_id) == <<"upload", "proof", PyStr(order_id)>>

\* callback_data of get_admin_order_keyboard(order_id)
AdminToken(act, order_id) == <<"admin", act, PyStr(order_id)>>

\* f"{x or 'none'}"
OrNone(x) == IF x = NULL \/ x = "" THEN "none" ELSE x

\* get_pagination_keyboard: the Previous, Next and page-jump buttons for the
\* target page, and the Export button.  current_filter is a status name.
AdminOrdersToken(page, current_filter, date_filter, search_query) ==
    <<"admin", "orders", PyStr(page)>> \o Segments(current_filter)
        \o <<OrNone(date_filter), OrNone(search_query)>>

AdminExportToken(current_filter, date_filter) ==
    <<"admin", "export">> \o Segments(current_filter) \o <<OrNone(date_filter)>>

\* A button of the keyboard: what it is and its callback data.
Button(kind, data) == [kind |-> kind, data |-> data]

Noop == <<"noop">>

\* range(a, b + 1)
PyRange(a, b) == [k \in 1 .. (b - a + 1) |-> a + k - 1]

\* The page-jump row built from range(page - 2, page + 2 + 1), without the
\* max and the min.
jump_row_unclamped(page, total_pages, current_filter, date_filter, search_query) ==
    LET ps == PyRange(page - 2, page + 2) IN
    [k \in DOMAIN ps |->
        IF ps[k] = page THEN Button("current", Noop)
        ELSE Button("page", AdminOrdersToken(ps[k], current_filter, date_filter,
                                             search_query))]

\* for p in range(max(1, page-2), min(total_pages, page+2) + 1)
jump_row(page, total_pages, current_filter, date_filter, search_query) ==
    LET a == IF page - 2 > 1 THEN page - 2 ELSE 1
        b == IF page + 2 < total_pages THEN page + 2 ELSE total_pages
        ps == PyRange(a, b)
    IN  [k \in DOMAIN ps |->
            IF ps[k] = page THEN Button("current", Noop)
            ELSE Button("page", AdminOrdersToken(ps[k], current_filter, date_filter,
                                                 search_query))]

\* get_pagination_keyboard with action_prefix "admin_orders": the navigation
\* row, the page-jump row when there are more than five pages, and the two
\* rows of console buttons.
get_pagination_keyboard(page, total_pages, current_filter, date_filter, search_query) ==
    LET previous == IF page > 1
                    THEN <<Button("previous",
                                  AdminOrdersToken(page - 1, current_filter, date_filter,
                                                   search_query))>>
                    ELSE <<>>
        next == IF page < total_pages
                THEN <<Button("next",
                              AdminOrdersToken(page + 1, current_filter, date_filter,
                                               search_query))>>
                ELSE <<>>
        nav_row == previous \o <<Button("indicator", Noop)>> \o next
    IN  <<nav_row>>
        \o (IF total_pages > 5
            THEN <<jump_row(page, total_pages, current_filter, date_filter, search_query)>>
            ELSE <<>>)
        \o << <<Button("search", <<"admin", "search">>),
                Button("export", AdminExportToken(current_filter, date_filter))>>,
              <<Button("stats", <<"admin", "stats">>),
                Button("back", <<"admin", "back">>)>> >>

\* get_admin_orders_filter_keyboard and show_export_options
FilterToken(x) == <<"filter">> \o Segments(x)

ExportToken(x) == <<"export">> \o Segments(x)

FilterButtons ==
    {"all", "pending", "awaiting_verification", "completed", "rejected",
     "today", "week", "month"}

ExportButtons ==
    {"all", "pending", "awaiting_verification", "completed", "today", "week", "month",
     "users"}

Periods == {"today", "week", "month"}

HasPrefix(tok, pre) == Len(tok) >= Len(pre) /\ SubSeq(tok, 1, Len(pre)) = pre

\* "product_" and what follows: startswith("product_") of select_product.
StartsWithProduct(tok) == Len(tok) >= 2 /\ tok[1] = "product"

\* re.match("^(choose_product|product_|view_all_prices)$", data): the whole
\* token must be one of the three alternatives; "product_" is <<"product", "">>.
EntryPointMatches(tok) ==
    tok \in {<<"choose", "product">>, <<"product", "">>, <<"view", "all", "prices">>}

\* pattern of the CONFIRMATION state's handler
ConfirmPattern == 
    IF variant = "main"
    THEN {<<"confirm", "order">>, <<"edit", "order">>, <<"cancel", "order">>}
    ELSE {<<"confirm", "order">>, <<"edit", "order">>}

\* ConversationHandler.check_update for chat u: entry points (allow_reentry),
\* then the handlers of the current state.  The fallbacks are commands that the
\* application-level command handlers take first, so they never run.
ConvRoute(u, ev) ==
    IF ev.kind = "callback" /\ StartsWithProduct(ev.data) THEN "select_product"
    ELSE IF ev.kind = "text" /\ ev.text = BUY_BOOKS THEN "entry_lambda"
    ELSE IF conv[u] = NAME /\ ev.kind = "text" THEN "get_name"
    ELSE IF conv[u] = GROUP /\ ev.kind = "text" THEN "get_group"
    ELSE IF conv[u] = PHONE /\ (ev.kind = "text" \/ ev = Command("/skip")) THEN "get_phone"
    ELSE IF conv[u] = QUANTITY /\ ev.kind = "callback" /\ HasPrefix(ev.data, <<"qty">>)
            /\ Len(ev.data) >= 2
         THEN "select_quantity"
    ELSE IF conv[u] = QUANTITY /\ ev.kind = "text" THEN "get_custom_quantity"
    ELSE IF conv[u] = CONFIRMATION /\ ev.kind = "callback" /\ ev.data \in ConfirmPattern
         THEN "confirm_order"
    ELSE "none"

\* ^(admin_orders_|filter_|admin_search|admin_stats|admin_export_|admin_back)
\* on the tokens of the model.
NavigationPattern(tok) ==
    \/ Len(tok) >= 3 /\ tok[1] = "admin" /\ tok[2] \in {"orders", "export"}
    \/ Len(tok) >= 2 /\ tok[1] = "filter"
    \/ Len(tok) >= 2 /\ tok[1] = "admin" /\ tok[2] \in {"search", "stats", "back"}

\* The handler that main() makes run on update ev of chat u; "none" if no
\* handler of the group takes it.
Route(u, ev) ==
    IF ev = Command("/start") THEN "start"
    ELSE IF ev = Command("/admin") THEN "admin_panel"
    ELSE IF ConvRoute(u, ev) # "none" THEN ConvRoute(u, ev)
    ELSE IF ev.kind = "callback" /\ Len(ev.data) >= 2
            /\ (ev.data[1] = "pay" \/ HasPrefix(ev.data, <<"upload", "proof">>))
         THEN "handle_payment_option"
    ELSE IF ev.kind = "callback" /\ NavigationPattern(ev.data)
         THEN "handle_admin_orders_navigation"
    ELSE IF ev.kind = "callback" /\ Len(ev.data) >= 2 /\ ev.data[1] = "admin"
            /\ ev.data[2] \in {"view", "confirm", "reject", "complete", "contact", "note"}
         THEN "handle_admin_order_action"
    ELSE IF ev.kind = "callback" /\ Len(ev.data) >= 2 /\ ev.data[1] = "export"
         THEN "handle_export_command"
    ELSE IF ev.kind = "photo" THEN "handle_payment_proof"
    ELSE IF ev.kind = "text" THEN "handle_admin_note"
    ELSE "none"

-----------------------------------------------------------------------------
(* Sample inputs *)

\* Taps, texts and tokens offered to the handlers under Spec ...
TapSamples == {<<"math", "book">>, <<"business">>}

NameTexts == {"Dara"}

GroupTexts == {"A1"}

PhoneEvents == {Command("/skip")}

QtyTokens == {<<"qty", "3">>}

QtyTexts == {"50", "51"}

\* Callback data no button of get_quantity_keyboard carries; pattern "^qty_"
\* lets it through to select_quantity.
ForgedQtyTokens == {<<"qty", "0">>}

NoteTexts == {"Dara", "A1"}

LifecycleNoteTexts == {"Dara"}

\* The order ids of the tokens tapped under SpecLifecycle and SpecAdmin.
TokenIds == {1}

\* ... and under SpecConversation, which follows the conversation alone.
AllTaps == DOMAIN PRODUCTS

AllPhoneEvents == {Text("012345678"), Command("/skip")}

AllQtyTexts == {"1", "3", "50", "0", "51", "-1", "abc", "2.5"}

AllQtyTokens == {<<"qty", "1">>, <<"qty", "3">>, <<"qty", "custom">>}

\* The scenario of the spec: Math Book, name Dara, group A1, phone skipped,
\* quantity 3, confirm.
Scenario ==
    << Callback(ProductToken(<<"math", "book">>)), Text("Dara"), Text("A1"),
       Command("/skip"), Callback(<<"qty", "3">>), Callback(<<"confirm", "order">>) >>

\* Observer of the scenario for chat u: the position reached after update ev.
Advance(u, ev) ==
    IF u \notin Buyers THEN progress
    ELSE IF progress >= 1 /\ progress < Len(Scenario) /\ ev = Scenario[progress + 1]
         THEN progress + 1
    ELSE IF ev = Scenario[1] /\ conv[u] = END THEN 1
    ELSE 0

\* The handlers whose outcome is recorded in last: those that may answer
\* without changing any other part of the state.
Observed ==
    {"select_product", "entry_lambda", "select_quantity", "get_custom_quantity",
     "confirm_order", "admin_panel",
     "handle_admin_order_action", "handle_admin_note", "handle_payment_proof"}

Quiet == [user |-> 0, event |-> Command(""), handler |-> "", result |-> "", trace |-> <<>>]

\* One step of a handler that reaches outside the process: the statement
\* run, the chat written to (0 for none) and whether it succeeded.
Step(op, to, ok) == [op |-> op, to |-> to, ok |-> ok]

\* trace: the outside steps of the handler, in the order it ran them.
DoneWith(u, ev, handler, result, trace) ==
    /\ last' = IF handler \in Observed
               THEN [user |-> u, event |-> ev, handler |-> handler, result |-> result,
                     trace |-> trace]
               ELSE Quiet
    /\ progress' = Advance(u, ev)

Done(u, ev, handler, result) == DoneWith(u, ev, handler, result, <<>>)

SetDb(db) ==
    /\ users' = db.users
    /\ orders' = db.orders
    /\ products' = db.products

-----------------------------------------------------------------------------
(* Initial state: a fresh database after init_db, no conversation *)

Init ==
    /\ variant \in {"main", "shop"}
    /\ catalog = PRODUCTS
    /\ users = EmptyDict
    /\ orders = <<>>
    /\ products = [n \in {PRODUCTS[pid].name : pid \in DOMAIN PRODUCTS} |-> 0]
    /\ conv = [u \in Users |-> END]
    /\ user_data = [u \in Users |-> EmptyDict]
    /\ updates = 0
    /\ last = Quiet
    /\ progress = 0

-----------------------------------------------------------------------------
(* Handlers *)

\* /start
start(u) ==
    LET ev == Command("/start") IN
    /\ Route(u, ev) = "start"
    /\ SetDb(add_user(Db, u))
    /\ UNCHANGED <<variant, catalog, conv, user_data, updates>>
    /\ Done(u, ev, "start", "welcome")

RECURSIVE SumPrices(_)
SumPrices(rows) ==
    IF rows = <<>> THEN 0 ELSE Head(rows).total_price + SumPrices(Tail(rows))

\* revenue with WHERE status IN ('confirmed', 'completed')
get_statistics_paid(db) ==
    [total_orders |-> Len(db.orders),
     status_counts |-> [st \in {db.orders[i].status : i \in DOMAIN db.orders} |->
                            Len(SelectSeq(db.orders, LAMBDA o : o.status = st))],
     revenue |-> SumPrices(SelectSeq(db.orders,
                     LAMBDA o : o.status \in {"confirmed", "completed"})),
     total_users |-> Cardinality(DOMAIN db.users)]

\* get_statistics: the counts and the revenue, SUM(total_price) over the
\* orders WHERE status = 'completed', 0 for the NULL of an empty sum.
get_statistics(db) ==
    [total_orders |-> Len(db.orders),
     status_counts |-> [st \in {db.orders[i].status : i \in DOMAIN db.orders} |->
                            Len(SelectSeq(db.orders, LAMBDA o : o.status = st))],
     revenue |-> SumPrices(SelectSeq(db.orders, LAMBDA o : o.status = "completed")),
     total_users |-> Cardinality(DOMAIN db.users)]

\* The panel message, with the statistics it prints.
Panel(u, stats) == [op |-> "reply_text", to |-> u, ok |-> TRUE, stats |-> stats]

\* /admin, behind admin_only
admin_panel(u) ==
    LET ev == Command("/admin") IN
    /\ Route(u, ev) = "admin_panel"
    /\ UNCHANGED <<variant, catalog, users, orders, products, conv, user_data, updates>>
    /\ IF u # ADMIN_ID
       THEN Done(u, ev, "admin_panel", "denied")
       ELSE DoneWith(u, ev, "admin_panel", "panel", <<Panel(u, get_statistics(Db))>>)

\* The product_ branch of select_product on the token of catalog entry pid.
select_product(u, pid) ==
    LET ev == Callback(ProductToken(pid))
        product_id == <<ev.data[2]>>
    IN
    /\ Route(u, ev) = "select_product"
    /\ IF product_id \notin DOMAIN catalog
       THEN /\ UNCHANGED <<conv, user_data>>
            /\ Done(u, ev, "select_product", "KeyError")
       ELSE /\ user_data' = [user_data EXCEPT ![u] =
                    Put(Put(Put(Put(@, "product_id", product_id),
                                "product_name", catalog[product_id].name),
                            "price", catalog[product_id].price),
                        "product_emoji", catalog[product_id].emoji)]
            /\ conv' = [conv EXCEPT ![u] = NAME]
            /\ Done(u, ev, "select_product", "ask_name")
    /\ UNCHANGED <<variant, catalog, users, orders, products, updates>>

\* The text entry point: the lambda runs select_product on a message update,
\* whose callback_query is None, and query.answer() raises.
entry_lambda(u) ==
    LET ev == Text(BUY_BOOKS) IN
    /\ Route(u, ev) = "entry_lambda"
    /\ UNCHANGED <<variant, catalog, users, orders, products, conv, user_data, updates>>
    /\ Done(u, ev, "entry_lambda", "AttributeError")

get_name(u, t) ==
    LET ev == Text(t) IN
    /\ Route(u, ev) = "get_name"
    /\ user_data' = [user_data EXCEPT ![u] = Put(@, "name", t)]
    /\ conv' = [conv EXCEPT ![u] = GROUP]
    /\ UNCHANGED <<variant, catalog, users, orders, products, updates>>
    /\ Done(u, ev, "get_name", "ask_group")

get_group(u, t) ==
    LET ev == Text(t) IN
    /\ Route(u, ev) = "get_group"
    /\ user_data' = [user_data EXCEPT ![u] = Put(@, "group", t)]
    /\ conv' = [conv EXCEPT ![u] = PHONE]
    /\ UNCHANGED <<variant, catalog, users, orders, products, updates>>
    /\ Done(u, ev, "get_group", "ask_phone")

\* "Not specified" in main.py; shop.py stores the same placeholder in Khmer.
PhonePlaceholder == "Not specified"

get_phone(u, ev) ==
    LET phone == IF ev.text # "/skip" THEN ev.text ELSE PhonePlaceholder IN
    /\ Route(u, ev) = "get_phone"
    /\ user_data' = [user_data EXCEPT ![u] = Put(@, "phone", phone)]
    /\ SetDb(update_user_info(Db, u, user_data[u]["group"], phone))
    /\ conv' = [conv EXCEPT ![u] = QUANTITY]
    /\ UNCHANGED <<variant, catalog, updates>>
    /\ Done(u, ev, "get_phone", "ask_quantity")

select_quantity(u, tok) ==
    LET ev == Callback(tok) IN
    /\ Route(u, ev) = "select_quantity"
    /\ IF tok = <<"qty", "custom">>
       THEN /\ conv' = [conv EXCEPT ![u] = QUANTITY]
            /\ UNCHANGED user_data
            /\ Done(u, ev, "select_quantity", "ask_custom")
       ELSE IF ~IsInt(tok[2])
       THEN /\ UNCHANGED <<conv, user_data>>
            /\ Done(u, ev, "select_quantity", "ValueError")
       ELSE /\ user_data' = [user_data EXCEPT ![u] = Put(@, "quantity", PyInt(tok[2]))]
            /\ conv' = [conv EXCEPT ![u] = CONFIRMATION]
            /\ Done(u, ev, "select_quantity", "summary")
    /\ UNCHANGED <<variant, catalog, users, orders, products, updates>>

\* The outcome of get_custom_quantity on text t.
CustomQuantity(t) ==
    IF ~IsInt(t) THEN [state |-> QUANTITY, store |-> FALSE, reply |-> "not_a_number"]
    ELSE IF PyInt(t) < 1 THEN [state |-> QUANTITY, store |-> FALSE, reply |-> "too_small"]
    ELSE IF PyInt(t) > 50 THEN [state |-> QUANTITY, store |-> FALSE, reply |-> "too_many"]
    ELSE [state |-> CONFIRMATION, store |-> TRUE, reply |-> "summary"]

get_custom_quantity(u, t) ==
    LET ev == Text(t)
        r == CustomQuantity(t)
    IN
    /\ Route(u, ev) = "get_custom_quantity"
    /\ user_data' = IF r.store
                    THEN [user_data EXCEPT ![u] = Put(@, "quantity", PyInt(t))]
                    ELSE user_data
    /\ conv' = [conv EXCEPT ![u] = r.state]
    /\ UNCHANGED <<variant, catalog, users, orders, products, updates>>
    /\ Done(u, ev, "get_custom_quantity", r.reply)

\* What the buyer is sent after the order is committed:
\*   "photo"            the image was fetched (status 200) and sent with the instructions
\*   "nothing"          the fetch answered with another status: no branch sends anything
\*   "fallback"         the fetch or the sending raised; the text-only variant was sent
\*   "fallback_failed"  so did the sending of the text-only variant: the handler raises
Deliveries == {"photo", "nothing", "fallback", "fallback_failed"}

\* The sends of confirm_order after create_order.  "photo": requests.get
\* answers 200 and both replies are sent; "nothing": it answers another
\* status, and the if has no else; "fallback": it raises and the text is
\* sent by edit_message_text; "fallback_failed": that send raises as well.
\* requests.get(KHQR_URL): no timeout argument is passed, and requests waits
\* without limit when it is given none.
KHQR_TIMEOUT == NULL

\* What the server of the QR image does with the request.
Servers == {"answers", "refuses", "silent"}

\* requests.get: a response, an exception (connection refused, or Timeout
\* once the wait is over), or a call that never returns.
requests_get(timeout, server) ==
    CASE server = "answers" -> "response"
      [] server = "refuses" -> "raised"
      [] server = "silent" -> IF timeout = NULL THEN "blocked" ELSE "raised"

\* The outcome of the handlers' try block for each result of the fetch, the
\* sends to Telegram succeeding.
FetchDelivery(server) ==
    CASE requests_get(KHQR_TIMEOUT, server) = "response" -> "photo"
      [] requests_get(KHQR_TIMEOUT, server) = "raised" -> "fallback"
      [] requests_get(KHQR_TIMEOUT, server) = "blocked" -> "stalled"

\* The handler is inside requests.get, a synchronous call on the thread of
\* the event loop: until it returns no update is handled.
Stall(u, ev, handler, trace) ==
    /\ last' = [user |-> u, event |-> ev, handler |-> handler, result |-> "stalled",
                trace |-> trace \o <<Step("requests.get", 0, FALSE)>>]
    /\ UNCHANGED progress

Stalled == last.result = "stalled"

DeliverySteps(u, delivery) ==
    CASE delivery = "photo" ->
            <<Step("requests.get", 0, TRUE), Step("reply_photo", u, TRUE),
              Step("reply_text", u, TRUE)>>
      [] delivery = "nothing" -> <<Step("requests.get", 0, FALSE)>>
      [] delivery = "fallback" ->
            <<Step("requests.get", 0, FALSE), Step("edit_message_text", u, TRUE)>>
      [] delivery = "fallback_failed" ->
            <<Step("requests.get", 0, FALSE), Step("edit_message_text", u, FALSE)>>

Notifications == {"notified", "notify_failed"}

\* error_handler: the message sent to the chat whose handler raised.
error_handler(u) == Step("error_handler", u, TRUE)

\* notify_admin_new_order without its try/except.
notify_admin_new_order_unguarded(notify) ==
    [steps |-> <<Step("send_message", ADMIN_ID, notify = "notified")>>,
     raised |-> notify # "notified"]

\* notify_admin_new_order: one send to the administrator inside try/except.
notify_admin_new_order(notify) ==
    [steps |-> <<Step("send_message", ADMIN_ID, notify = "notified")>>,
     raised |-> FALSE]

confirm_order(u, tok, failAt, delivery, notify) ==
    LET ev == Callback(tok)
        d == user_data[u]
        r == create_order(Db, u, d["product_name"], d["quantity"],
                          d["price"] * d["quantity"], failAt)
        sent == delivery # "fallback_failed"
        n == notify_admin_new_order(notify)
    IN
    /\ Route(u, ev) = "confirm_order"
    /\ IF tok = <<"confirm", "order">>
       THEN /\ Len(orders) < MaxOrders
            /\ IF r.raised
               THEN /\ SetDb(r.db)
                    /\ UNCHANGED <<conv, user_data>>
                    /\ DoneWith(u, ev, "confirm_order", "db_error",
                                <<Step("create_order", 0, FALSE), error_handler(u)>>)
               ELSE IF delivery = "stalled"
               THEN /\ SetDb(r.db)
                    /\ user_data' = [user_data EXCEPT ![u] = Put(@, "order_id", r.order_id)]
                    /\ UNCHANGED conv
                    /\ Stall(u, ev, "confirm_order", <<Step("create_order", 0, TRUE)>>)
               ELSE /\ SetDb(r.db)
                    /\ user_data' = [user_data EXCEPT ![u] = Put(@, "order_id", r.order_id)]
                    /\ conv' = [conv EXCEPT ![u] =
                            IF sent /\ ~n.raised THEN END ELSE @]
                    /\ DoneWith(u, ev, "confirm_order", delivery,
                                <<Step("create_order", 0, TRUE)>> \o DeliverySteps(u, delivery)
                                    \o (IF sent THEN n.steps ELSE <<>>)
                                    \o (IF sent /\ ~n.raised THEN <<>>
                                        ELSE <<error_handler(u)>>))
       ELSE IF tok = <<"edit", "order">>
       THEN /\ failAt = 0 /\ delivery = "photo" /\ notify = "notified"
            /\ user_data' = IF variant = "shop"
                            THEN [user_data EXCEPT ![u] = Put(@, "editing", "name")]
                            ELSE user_data
            /\ conv' = [conv EXCEPT ![u] = IF variant = "shop" THEN NAME ELSE END]
            /\ UNCHANGED <<users, orders, products>>
            /\ Done(u, ev, "confirm_order", "edit")
       ELSE /\ failAt = 0 /\ delivery = "photo" /\ notify = "notified"
            /\ conv' = [conv EXCEPT ![u] = END]
            /\ UNCHANGED <<users, orders, products, user_data>>
            /\ Done(u, ev, "confirm_order", "cancelled")
    /\ UNCHANGED <<variant, catalog, updates>>

\* WHERE order_id = ? with a text parameter: the column's INTEGER affinity
\* converts a numeral; any other text matches no row.
SqlOrderId(s) == IF IsInt(s) THEN PyInt(s) ELSE 0

PayOutcomes == {"photo", "nothing", "fallback"}

handle_payment_option(u, tok, outcome) ==
    LET ev == Callback(tok)
        order_id == tok[3]
    IN
    /\ Route(u, ev) = "handle_payment_option"
    /\ IF HasPrefix(tok, <<"pay", "khqr">>)
       THEN IF outcome = "photo"
            THEN /\ updates < MaxUpdates
                 /\ SetDb(update_order_payment(Db, SqlOrderId(order_id), "KHQR", NULL))
                 /\ updates' = updates + 1
                 /\ UNCHANGED user_data
                 /\ Done(u, ev, "handle_payment_option", "khqr_selected")
            ELSE IF outcome = "stalled"
            THEN /\ UNCHANGED <<users, orders, products, user_data, updates>>
                 /\ Stall(u, ev, "handle_payment_option", <<>>)
            ELSE /\ UNCHANGED <<users, orders, products, user_data, updates>>
                 /\ Done(u, ev, "handle_payment_option", outcome)
       ELSE IF HasPrefix(tok, <<"pay", "cash">>)
       THEN /\ outcome = "photo"
            /\ updates < MaxUpdates
            /\ SetDb(update_order_payment(Db, SqlOrderId(order_id), "Cash", NULL))
            /\ updates' = updates + 1
            /\ UNCHANGED user_data
            /\ Done(u, ev, "handle_payment_option", "cash_selected")
       ELSE /\ outcome = "photo"
            /\ user_data' = [user_data EXCEPT ![u] = Put(@, "awaiting_proof_for", order_id)]
            /\ UNCHANGED <<users, orders, products, updates>>
            /\ Done(u, ev, "handle_payment_option", "ask_proof")
    /\ UNCHANGED <<variant, catalog, conv>>

\* payment_proof marker written by the proof handler of each variant
ProofMarker == IF variant = "main" THEN "proof_provided" ELSE "screenshot_provided"

\* shop.py: the ids of the sender's orders that are pending or awaiting
\* verification, newest first.
PendingOrders(db, u) ==
    SelectSeq(get_user_orders(db, u),
              LAMBDA o : o.status \in {"pending", "awaiting_verification"})

\* "forwarded": every send succeeded; "forward_failed": send_photo to the
\* administrator raised; "reply_failed": a send after the order update raised.
ProofOutcomes == {"forwarded", "forward_failed", "reply_failed"}

\* The proof handler picking the order by itself in every variant.
auto_select_any_variant(u, armed) == ~armed /\ Len(PendingOrders(Db, u)) > 0

\* Whether the proof handler picks the order by itself: shop.py does, for a
\* sender without a marker who has a pending order; main.py never does.
auto_select(u, armed) == variant = "shop" /\ ~armed /\ Len(PendingOrders(Db, u)) > 0

\* The review message to the administrator: shop.py attaches the confirm and
\* reject buttons of the order, main.py sends text only.  order_id is the
\* numeral as it stands in the marker.
Review(order_id) ==
    [op |-> "send_message", to |-> ADMIN_ID, ok |-> TRUE,
     reply_markup |-> IF variant = "shop"
                      THEN {<<"admin", "confirm", order_id>>, <<"admin", "reject", order_id>>}
                      ELSE {}]

\* The marker disarmed at the head of the try block.
forward_failed_marker_popped(d, order_id) == Pop(d, "awaiting_proof_for")

\* user_data of the sender when send_photo to the administrator raised: the
\* pop of the marker is the last statement of the try block and is not
\* reached; shop.py has set the marker to the chosen order before the try.
forward_failed_marker(d, order_id) == Put(d, "awaiting_proof_for", order_id)

\* handle_payment_proof (main.py) / handle_payment_screenshot (shop.py)
handle_payment_proof(u, outcome) ==
    LET ev == Photo
        handler == "handle_payment_proof"
        armed == Has(user_data[u], "awaiting_proof_for")
        pending == PendingOrders(Db, u)
        auto == auto_select(u, armed)
        order_id == IF armed THEN user_data[u]["awaiting_proof_for"]
                    ELSE PyStr(pending[1].order_id)
    IN
    /\ Route(u, ev) = handler
    /\ IF ~armed /\ ~auto
       THEN /\ outcome = "forwarded"
            /\ UNCHANGED <<users, orders, products, user_data, updates>>
            /\ DoneWith(u, ev, handler, "select_first", <<Step("reply_text", u, TRUE)>>)
       ELSE IF outcome = "forward_failed"
       THEN /\ user_data' = [user_data EXCEPT ![u] = forward_failed_marker(@, order_id)]
            /\ UNCHANGED <<users, orders, products, updates>>
            /\ DoneWith(u, ev, handler, "try_again",
                        <<Step("send_photo", ADMIN_ID, FALSE), Step("reply_text", u, TRUE)>>)
       ELSE /\ updates < MaxUpdates
            /\ SetDb(update_order_payment(Db, SqlOrderId(order_id), "Bank Transfer", ProofMarker))
            /\ updates' = updates + 1
            /\ user_data' = [user_data EXCEPT ![u] =
                    IF outcome = "forwarded"
                    THEN Pop(@, "awaiting_proof_for")
                    ELSE Put(@, "awaiting_proof_for", order_id)]
            /\ IF outcome = "forwarded"
               THEN DoneWith(u, ev, handler, "received",
                        <<Step("send_photo", ADMIN_ID, TRUE),
                          Step("update_order_payment", 0, TRUE),
                          Step("reply_text", u, TRUE), Review(order_id)>>)
               ELSE DoneWith(u, ev, handler, "try_again",
                        <<Step("send_photo", ADMIN_ID, TRUE),
                          Step("update_order_payment", 0, TRUE),
                          Step("reply_text", u, FALSE), Step("reply_text", u, TRUE)>>)
    /\ UNCHANGED <<variant, catalog, conv>>

AdminActs == {"confirm", "reject", "complete", "note"}

StatusOf(act) ==
    CASE act = "confirm" -> "confirmed"
      [] act = "reject" -> "rejected"
      [] act = "complete" -> "completed"

NoteOf(act) ==
    CASE act = "confirm" -> "Confirmed by admin"
      [] act = "reject" -> "Rejected by admin"
      [] act = "complete" -> "Completed by admin"

\* Registered without admin_only: the handler reads no sender identity.
\* What the administrator's button can meet: the acknowledgement that edits
\* the administrator's message can fail, and so can the message to the buyer.
AdminOutcomes == {"notified", "notify_failed", "ack_failed"}

\* update_order_status returns the buyer of the order, None (0 here) when no
\* order has the id.
BuyerOf(db, order_id) ==
    IF order_id \in DOMAIN db.orders THEN db.orders[order_id].user_id ELSE 0

buyer_notification_unguarded(to, outcome) ==
    [steps  |-> <<Step("send_message", to, to # 0 /\ outcome = "notified")>>,
     raised |-> ~(to # 0 /\ outcome = "notified")]

\* try: await context.bot.send_message(user_id, ...) except: pass
buyer_notification(to, outcome) ==
    [steps  |-> <<Step("send_message", to, to # 0 /\ outcome = "notified")>>,
     raised |-> FALSE]

handle_admin_order_action(u, tok, outcome) ==
    LET ev == Callback(tok)
        act == tok[2]
        order_id == PyInt(tok[3])
        handler == "handle_admin_order_action"
        n == buyer_notification(BuyerOf(Db, order_id), outcome)
        written == <<Step("update_order_status", 0, TRUE)>>
    IN
    /\ Route(u, ev) = handler
    /\ IsInt(tok[3])
    /\ IF act = "note"
       THEN /\ user_data' = [user_data EXCEPT ![u] = Put(@, "adding_note_for", order_id)]
            /\ UNCHANGED <<users, orders, products, updates>>
            /\ Done(u, ev, handler, "ask_note")
       ELSE /\ updates < MaxUpdates
            /\ SetDb(update_order_status(Db, order_id, StatusOf(act), NoteOf(act)))
            /\ updates' = updates + 1
            /\ UNCHANGED user_data
            /\ IF outcome = "ack_failed"
               THEN DoneWith(u, ev, handler, "raised",
                             written \o <<Step("edit_message_text", u, FALSE),
                                          error_handler(u)>>)
               ELSE IF n.raised
               THEN DoneWith(u, ev, handler, "raised",
                             written \o <<Step("edit_message_text", u, TRUE)>>
                                     \o n.steps \o <<error_handler(u)>>)
               ELSE DoneWith(u, ev, handler, StatusOf(act),
                             written \o <<Step("edit_message_text", u, TRUE)>>
                                     \o n.steps)
    /\ UNCHANGED <<variant, catalog, conv>>

\* The first text handler of the group: every text that the conversation
\* does not take.
handle_admin_note(u, t) ==
    LET ev == Text(t)
        armed == Has(user_data[u], "adding_note_for") /\ user_data[u]["adding_note_for"] # 0
    IN
    /\ Route(u, ev) = "handle_admin_note"
    /\ IF armed
       THEN /\ updates < MaxUpdates
            /\ SetDb(update_order_note(Db, user_data[u]["adding_note_for"], t))
            /\ updates' = updates + 1
            /\ user_data' = [user_data EXCEPT ![u] = Pop(@, "adding_note_for")]
            /\ Done(u, ev, "handle_admin_note", "note_added")
       ELSE /\ UNCHANGED <<users, orders, products, user_data, updates>>
            /\ Done(u, ev, "handle_admin_note", "ignored")
    /\ UNCHANGED <<variant, catalog, conv>>

\* What show_admin_orders or export_orders_admin was called with.
Request(page, status_filter, date_filter, search_query) ==
    [page |-> page, status_filter |-> status_filter, date_filter |-> date_filter,
     search_query |-> search_query]

NoRequest == Request(NULL, NULL, NULL, NULL)

NoView ==
    [result |-> "", page |-> 0, total_pages |-> 0, total_orders |-> 0, window |-> <<>>,
     empty |-> ""]

\* The console handlers record the call they made and the view they sent.
Shown(u, ev, handler, result, request, view) ==
    /\ last' = [user |-> u, event |-> ev, handler |-> handler, result |-> result,
                request |-> request, view |-> view]
    /\ UNCHANGED progress

\* The arguments handle_admin_orders_navigation reads from an
\* admin_orders_ token of five or more parts.
ParseAdminOrders(parts) ==
    Request(PyInt(parts[3]), <<parts[4]>>,
            IF parts[5] # "none" THEN parts[5] ELSE NULL,
            IF Len(parts) > 5 /\ parts[6] # "none" THEN parts[6] ELSE NULL)

\* The arguments of the filter_ branch and of handle_export_command:
\* page 1 (none for an export), a period or a status, the defaults elsewhere.
ParseFilter(page, filter_type) ==
    IF filter_type \in Periods THEN Request(page, <<"all">>, filter_type, NULL)
    ELSE IF filter_type = "all" THEN Request(page, <<"all">>, NULL, NULL)
    ELSE Request(page, <<filter_type>>, NULL, NULL)

View(request) ==
    show_admin_orders(Db, request.page, request.status_filter, request.date_filter,
                      request.search_query)

\* export_orders_admin: the order ids of the sheet sent to the administrator.
Exported(request) ==
    LET rows == export_to_excel(Db, request.status_filter, request.date_filter) IN
    [NoView EXCEPT !.window = [k \in DOMAIN rows |-> rows[k].order_id]]

\* handle_admin_orders_navigation; registered without admin_only.
handle_admin_orders_navigation(u, tok) ==
    LET ev == Callback(tok)
        handler == "handle_admin_orders_navigation"
    IN
    /\ Route(u, ev) = handler
    /\ IF HasPrefix(tok, <<"admin", "orders">>)
       THEN /\ UNCHANGED user_data
            /\ IF Len(tok) < 4
               THEN Shown(u, ev, handler, "ignored", NoRequest, NoView)
               ELSE IF ~IsInt(tok[3]) \/ Len(tok) = 4
               THEN Shown(u, ev, handler, "raised", NoRequest, NoView)
               ELSE Shown(u, ev, handler, View(ParseAdminOrders(tok)).result,
                          ParseAdminOrders(tok), View(ParseAdminOrders(tok)))
       ELSE IF tok[1] = "filter"
       THEN /\ UNCHANGED user_data
            /\ Shown(u, ev, handler, View(ParseFilter(1, tok[2])).result,
                     ParseFilter(1, tok[2]), View(ParseFilter(1, tok[2])))
       ELSE IF tok = <<"admin", "search">>
       THEN /\ user_data' = [user_data EXCEPT ![u] = Put(@, "awaiting_search", TRUE)]
            /\ Shown(u, ev, handler, "ask_search", NoRequest, NoView)
       ELSE IF tok = <<"admin", "stats">>
       THEN /\ UNCHANGED user_data
            /\ Shown(u, ev, handler, "stats", NoRequest, NoView)
       ELSE IF HasPrefix(tok, <<"admin", "export">>)
       THEN /\ UNCHANGED user_data
            /\ IF Len(tok) < 4
               THEN Shown(u, ev, handler, "raised", NoRequest, NoView)
               ELSE Shown(u, ev, handler, "export",
                          Request(NULL, <<tok[3]>>,
                                  IF tok[4] # "none" THEN tok[4] ELSE NULL, NULL),
                          Exported(Request(NULL, <<tok[3]>>,
                                  IF tok[4] # "none" THEN tok[4] ELSE NULL, NULL)))
       ELSE IF tok = <<"admin", "back">>
       THEN \* admin_panel(query, context): a CallbackQuery has no effective_user
            /\ UNCHANGED user_data
            /\ Shown(u, ev, handler, "raised", NoRequest, NoView)
       ELSE /\ UNCHANGED user_data
            /\ Shown(u, ev, handler, "ignored", NoRequest, NoView)
    /\ UNCHANGED <<variant, catalog, users, orders, products, conv, updates>>

\* handle_export_command
handle_export_command(u, tok) ==
    LET ev == Callback(tok)
        handler == "handle_export_command"
    IN
    /\ Route(u, ev) = handler
    /\ IF tok[2] = "users"
       THEN Shown(u, ev, handler, "export_users", NoRequest, NoView)
       ELSE Shown(u, ev, handler, "export", ParseFilter(NULL, tok[2]),
                  Exported(ParseFilter(NULL, tok[2])))
    /\ UNCHANGED <<variant, catalog, users, orders, products, conv, user_data, updates>>

\* An update that no handler of the group takes.
unhandled(u, ev) ==
    /\ Route(u, ev) = "none"
    /\ UNCHANGED <<variant, catalog, users, orders, products, conv, user_data, updates>>
    /\ Done(u, ev, "none", "")

\* The process is stopped and started again, possibly with an edited PRODUCTS:
\* conversations and user_data are in memory and are lost, the database stays
\* (init_db inserts the products with INSERT OR IGNORE).
restart(c) ==
    /\ catalog' = c
    /\ conv' = [u \in Users |-> END]
    /\ user_data' = [u \in Users |-> EmptyDict]
    /\ last' = Quiet
    /\ progress' = 0
    /\ UNCHANGED <<variant, users, orders, products, updates>>

-----------------------------------------------------------------------------

\* Placing orders: /start, the conversation on the sample inputs, every
\* outcome of confirm_order, restarts.
Next ==
    \/ \E u \in Buyers : start(u)
    \/ \E u \in Buyers, pid \in TapSamples : select_product(u, pid)
    \/ \E u \in Buyers, t \in NameTexts : get_name(u, t)
    \/ \E u \in Buyers, t \in GroupTexts : get_group(u, t)
    \/ \E u \in Buyers, ev \in PhoneEvents : get_phone(u, ev)
    \/ \E u \in Buyers, tok \in QtyTokens \cup ForgedQtyTokens \cup {<<"qty", "custom">>} :
            select_quantity(u, tok)
    \/ \E u \in Buyers, t \in QtyTexts : get_custom_quantity(u, t)
    \/ \E u \in Buyers, delivery \in Deliveries, notify \in Notifications :
            confirm_order(u, <<"confirm", "order">>, 0, delivery, notify)
    \/ \E u \in Buyers, failAt \in DbFailPoints \ {0} :
            confirm_order(u, <<"confirm", "order">>, failAt, "nothing", "notified")
    \/ \E u \in Buyers, tok \in {<<"edit", "order">>, <<"cancel", "order">>} :
            confirm_order(u, tok, 0, "photo", "notified")
    \/ \E u \in Buyers, t \in NoteTexts : handle_admin_note(u, t)
    \/ \E u \in Buyers,
          ev \in {Command("/skip"), Callback(<<"qty", "3">>), Callback(<<"confirm", "order">>)} :
            unhandled(u, ev)
    \/ \E c \in Catalogs : restart(c)

Spec == Init /\ [][Next]_vars

\* The life of stored orders: orders are placed along the plain path of the
\* conversation, then paid, proved, decided and annotated, by either chat.
NextLifecycle ==
    \/ \E u \in Buyers : select_product(u, <<"business">>)
    \/ \E u \in Buyers, t \in NameTexts : get_name(u, t)
    \/ \E u \in Buyers, t \in GroupTexts : get_group(u, t)
    \/ \E u \in Buyers, ev \in PhoneEvents : get_phone(u, ev)
    \/ \E u \in Buyers, tok \in QtyTokens : select_quantity(u, tok)
    \/ \E u \in Buyers : confirm_order(u, <<"confirm", "order">>, 0, "photo", "notified")
    \/ \E u \in Buyers, id \in TokenIds, outcome \in PayOutcomes :
          \E tok \in {PayKhqrToken(id), PayCashToken(id), UploadProofToken(id)} :
            handle_payment_option(u, tok, outcome)
    \/ \E u \in Buyers, outcome \in ProofOutcomes : handle_payment_proof(u, outcome)
    \/ \E act \in AdminActs, id \in TokenIds :
            handle_admin_order_action(ADMIN_ID, AdminToken(act, id), "notified")
    \/ \E t \in LifecycleNoteTexts : handle_admin_note(ADMIN_ID, t)
    \/ restart(PRODUCTS_EDITED)

SpecLifecycle == Init /\ [][NextLifecycle]_vars

\* The administrator's buttons, sent by the administrator and by a buyer, on
\* orders placed along the plain path of the conversation.
NextAdmin ==
    \/ \E u \in Buyers : select_product(u, <<"business">>)
    \/ \E u \in Buyers, t \in NameTexts : get_name(u, t)
    \/ \E u \in Buyers, t \in GroupTexts : get_group(u, t)
    \/ \E u \in Buyers, ev \in PhoneEvents : get_phone(u, ev)
    \/ \E u \in Buyers, tok \in QtyTokens : select_quantity(u, tok)
    \/ \E u \in Buyers : confirm_order(u, <<"confirm", "order">>, 0, "photo", "notified")
    \/ \E u \in Users : admin_panel(u)
    \/ \E u \in Users, act \in AdminActs, id \in TokenIds, outcome \in AdminOutcomes :
            handle_admin_order_action(u, AdminToken(act, id), outcome)
    \/ \E u \in Users, t \in LifecycleNoteTexts : handle_admin_note(u, t)
    \/ \E u \in Users : handle_admin_orders_navigation(u, <<"admin", "search">>)

SpecAdmin == Init /\ [][NextAdmin]_vars

\* The conversation alone, on every catalog entry and a wider sample of
\* texts: no order is committed.
NextConversation ==
    \/ \E u \in Users : admin_panel(u)
    \/ \E u \in Buyers : start(u)
    \/ \E u \in Buyers, pid \in AllTaps : select_product(u, pid)
    \/ \E u \in Buyers : entry_lambda(u)
    \/ \E u \in Buyers, t \in NameTexts : get_name(u, t)
    \/ \E u \in Buyers, t \in GroupTexts : get_group(u, t)
    \/ \E u \in Buyers, ev \in AllPhoneEvents : get_phone(u, ev)
    \/ \E u \in Buyers, tok \in AllQtyTokens : select_quantity(u, tok)
    \/ \E u \in Buyers, t \in AllQtyTexts : get_custom_quantity(u, t)
    \/ \E u \in Buyers, tok \in {<<"edit", "order">>, <<"cancel", "order">>} :
            confirm_order(u, tok, 0, "photo", "notified")

SpecConversation == Init /\ [][NextConversation]_vars

\* Two customers, the buyer and the administrator's own account, each along
\* the plain path of the conversation, their updates handled one at a time in
\* any order (the Application is built without concurrent_updates).
NextPair ==
    \/ \E u \in Users : start(u)
    \/ \E u \in Users : select_product(u, <<"business">>)
    \/ \E u \in Users, t \in NameTexts : get_name(u, t)
    \/ \E u \in Users, t \in GroupTexts : get_group(u, t)
    \/ \E u \in Users, ev \in PhoneEvents : get_phone(u, ev)
    \/ \E u \in Users, tok \in QtyTokens : select_quantity(u, tok)
    \/ \E u \in Users : confirm_order(u, <<"confirm", "order">>, 0, "photo", "notified")

SpecPair == Init /\ [][NextPair]_vars

\* The two handlers that fetch the QR image, against a server that answers,
\* refuses or stays silent; while a handler is inside the fetch nothing else
\* runs.
NextFetch ==
    \/ \E u \in Buyers : ~Stalled /\ start(u)
    \/ \E u \in Buyers : ~Stalled /\ select_product(u, <<"business">>)
    \/ \E u \in Buyers, t \in NameTexts : ~Stalled /\ get_name(u, t)
    \/ \E u \in Buyers, t \in GroupTexts : ~Stalled /\ get_group(u, t)
    \/ \E u \in Buyers, ev \in PhoneEvents : ~Stalled /\ get_phone(u, ev)
    \/ \E u \in Buyers, tok \in QtyTokens : ~Stalled /\ select_quantity(u, tok)
    \/ \E u \in Buyers, server \in Servers :
            /\ ~Stalled
            /\ confirm_order(u, <<"confirm", "order">>, 0, FetchDelivery(server), "notified")
    \/ \E u \in Buyers, id \in TokenIds, server \in Servers :
            /\ ~Stalled
            /\ handle_payment_option(u, PayKhqrToken(id), FetchDelivery(server))

SpecFetch == Init /\ [][NextFetch]_vars

\* The pagination keyboard on its own: a page and a number of pages with
\* 1 <= page <= total_pages, as show_admin_orders passes them after its
\* clamp, and a status filter.
KeyboardFilters == {"all", "pending"}

Asked(page, total_pages, current_filter) ==
    [user |-> ADMIN_ID, event |-> Command(""), handler |-> "show_admin_orders",
     result |-> "", page |-> page, total_pages |-> total_pages,
     current_filter |-> current_filter, keyboard |-> <<>>]

InitKeyboard ==
    /\ variant \in {"main", "shop"}
    /\ catalog = PRODUCTS
    /\ users = EmptyDict
    /\ orders = <<>>
    /\ products = [n \in {PRODUCTS[pid].name : pid \in DOMAIN PRODUCTS} |-> 0]
    /\ conv = [u \in Users |-> END]
    /\ user_data = [u \in Users |-> EmptyDict]
    /\ updates = 0
    /\ progress = 0
    /\ \E total_pages \in 1 .. MaxPages, page \in 1 .. MaxPages, f \in KeyboardFilters :
            /\ page <= total_pages
            /\ last = Asked(page, total_pages, f)

BuildKeyboard ==
    /\ last.handler = "show_admin_orders"
    /\ last.result = ""
    /\ last' = [last EXCEPT
                    !.result = "keyboard",
                    !.keyboard = get_pagination_keyboard(last.page, last.total_pages,
                                                         last.current_filter, NULL, NULL)]
    /\ UNCHANGED <<variant, catalog, users, orders, products, conv, user_data, updates,
                   progress>>

NextKeyboard == BuildKeyboard

SpecKeyboard == InitKeyboard /\ [][NextKeyboard]_vars

\* The database after the users of owners, each registered with /start, have
\* placed one order each in turn: add_user for both, then create_order per
\* entry of owners.
RECURSIVE Placed(_)
Placed(owners) ==
    IF owners = <<>>
    THEN add_user(add_user([users |-> EmptyDict, orders |-> <<>>,
                            products |-> [n \in {PRODUCTS[pid].name : pid \in DOMAIN PRODUCTS} |-> 0]],
                           1001), ADMIN_ID)
    ELSE create_order(Placed(SubSeq(owners, 1, Len(owners) - 1)), owners[Len(owners)],
                      "Principle of Business", 1, 199, 0).db

\* The bot started again over such a database: conversations and user_data
\* are empty, the orders are all pending.
InitOwners ==
    /\ variant \in {"main", "shop"}
    /\ catalog = PRODUCTS
    /\ \E n \in 0 .. MaxOrders : \E owners \in [1 .. n -> Users] :
          LET db == Placed(owners) IN
          /\ users = db.users
          /\ orders = db.orders
          /\ products = db.products
    /\ conv = [u \in Users |-> END]
    /\ user_data = [u \in Users |-> EmptyDict]
    /\ updates = 0
    /\ last = Quiet
    /\ progress = 0

\* The buttons tapped under SpecOwners: the payment by QR code and the proof
\* submission, the administrator's confirm and reject.  pay_cash_ and
\* complete run the same statements with another constant and are followed
\* under SpecLifecycle.
OwnersDecisions == {"confirm", "reject"}

\* Payment of orders of two owners: either user taps a payment button
\* carrying any order id or sends a photo, the administrator decides orders.
NextOwners ==
    \/ \E u \in Users, id \in 1 .. MaxOrders :
          \E tok \in {PayKhqrToken(id), UploadProofToken(id)} :
            handle_payment_option(u, tok, "photo")
    \/ \E u \in Users, outcome \in ProofOutcomes : handle_payment_proof(u, outcome)
    \/ \E act \in OwnersDecisions, id \in 1 .. MaxOrders :
            handle_admin_order_action(ADMIN_ID, AdminToken(act, id), "notified")

SpecOwners == InitOwners /\ [][NextOwners]_vars

\* The database after a history of n orders.  Buyer 1001 registered with
\* /start and gave a group; buyer 1002 did so too ("complete"), sent /start
\* only after ordering ("late") or never ("absent").  Order i belongs to
\* 1002 when i % 3 = 1; the products alternate; the statuses cycle through
\* the five of the lifecycle; the newest order is schedule.first days old and
\* each older one schedule.step days more.
ConsoleBuyers == {1001, 1002}

Registrations == {"complete", "late", "absent"}

Schedules == {[first |-> 0, step |-> 2], [first |-> 3, step |-> 0]}

\* Order i of a history of n: the row create_order inserted, with the
\* columns update_order_payment and update_order_status have set since.
OwnerOf(i) == IF i % 3 = 1 THEN 1002 ELSE 1001

ProductOf(i) == IF i % 2 = 1 THEN PRODUCTS[<<"math", "book">>] ELSE PRODUCTS[<<"business">>]

StoredOrder(i, n, schedule) ==
    [order_id |-> i, user_id |-> OwnerOf(i), product_name |-> ProductOf(i).name,
     quantity |-> 1, total_price |-> ProductOf(i).price,
     status |-> CASE i % 5 = 1 -> "pending"
                  [] i % 5 = 2 -> "awaiting_verification"
                  [] i % 5 = 3 -> StatusOf("confirm")
                  [] i % 5 = 4 -> StatusOf("complete")
                  [] OTHER -> StatusOf("reject"),
     payment_method |-> IF i % 5 = 2 THEN "Bank Transfer" ELSE NULL,
     payment_proof |-> IF i % 5 = 2 THEN "proof_provided" ELSE NULL,
     admin_notes |-> CASE i % 5 = 3 -> NoteOf("confirm")
                       [] i % 5 = 4 -> NoteOf("complete")
                       [] i % 5 = 0 -> NoteOf("reject")
                       [] OTHER -> NULL,
     order_date |-> 0 - (schedule.first + (n - i) * schedule.step)]

\* The users row of buyer w after the n orders: registered before ordering
\* (the aggregates follow the orders) or after (the row of add_user).
StoredUser(w, n, group_name, before) ==
    LET mine == {i \in 1 .. n : OwnerOf(i) = w} IN
    [phone |-> IF before THEN "Not specified" ELSE NULL,
     group_name |-> IF before THEN group_name ELSE NULL,
     total_orders |-> IF before THEN Cardinality(mine) ELSE 0,
     total_spent |-> IF before
                     THEN Cardinality({i \in mine : i % 2 = 1}) * ProductOf(1).price
                          + Cardinality({i \in mine : i % 2 = 0}) * ProductOf(2).price
                     ELSE 0]

History(n, registration, schedule) ==
    [users |-> IF registration = "absent"
               THEN 1001 :> StoredUser(1001, n, "A1", TRUE)
               ELSE (1001 :> StoredUser(1001, n, "A1", TRUE)) @@
                    (1002 :> StoredUser(1002, n, "B2", registration = "complete")),
     orders |-> [i \in 1 .. n |-> StoredOrder(i, n, schedule)],
     products |-> [x \in {PRODUCTS[pid].name : pid \in DOMAIN PRODUCTS} |->
                    Cardinality({i \in 1 .. n : ProductOf(i).name = x})]]

InitConsole ==
    /\ variant \in {"main", "shop"}
    /\ catalog = PRODUCTS
    /\ \E n \in 0 .. MaxStored, registration \in Registrations, schedule \in Schedules :
          LET db == History(n, registration, schedule) IN
          /\ users = db.users
          /\ orders = db.orders
          /\ products = db.products
    /\ conv = [u \in Users |-> END]
    /\ user_data = [u \in Users |-> EmptyDict]
    /\ updates = 0
    /\ last = Quiet
    /\ progress = 0

\* The administrator's console over a stored history: every button of the
\* order list, the filter menu and the export menu.  The console handlers
\* read the database and leave it as it is; SpecConsole looks at the first
\* request after each history.
ConsolePages == {0, 1, 2, 3, 5}

ConsoleStatuses ==
    {"all", "pending", "awaiting_verification", "confirmed", "completed", "rejected"}

ConsoleDates == {NULL} \cup Periods

ConsoleSearches == {NULL, "Math", "2", "Dara"}

NextConsole ==
    \/ \E page \in ConsolePages, status \in ConsoleStatuses, date \in ConsoleDates,
          search \in ConsoleSearches :
            /\ last = Quiet
            /\ handle_admin_orders_navigation(ADMIN_ID,
                    AdminOrdersToken(page, status, date, search))
    \/ /\ last = Quiet
       /\ handle_admin_orders_navigation(ADMIN_ID, <<"admin", "orders", "1", "all", "none">>)
    \/ \E x \in FilterButtons :
            /\ last = Quiet
            /\ handle_admin_orders_navigation(ADMIN_ID, FilterToken(x))
    \/ \E status \in ConsoleStatuses, date \in ConsoleDates :
            /\ last = Quiet
            /\ handle_admin_orders_navigation(ADMIN_ID, AdminExportToken(status, date))
    \/ \E tok \in {<<"admin", "search">>, <<"admin", "stats">>, <<"admin", "back">>} :
            /\ last = Quiet
            /\ handle_admin_orders_navigation(ADMIN_ID, tok)
    \/ \E x \in ExportButtons :
            /\ last = Quiet
            /\ handle_export_command(ADMIN_ID, ExportToken(x))

SpecConsole == InitConsole /\ [][NextConsole]_vars

-----------------------------------------------------------------------------
(* Properties *)

\* The stored orders of user w, oldest first.
OrdersOf(w) == SelectSeq(orders, LAMBDA o : o.user_id = w)

RECURSIVE SumTotals(_)
SumTotals(rows) ==
    IF rows = <<>> THEN 0 ELSE Head(rows).total_price + SumTotals(Tail(rows))

\* C1: for every stored user, total_orders is the number of stored orders of
\* that user id and total_spent is the sum of their total_price.
C1_AggregatesMatchOrders ==
    \A w \in DOMAIN users :
        /\ users[w].total_orders = Len(OrdersOf(w))
        /\ users[w].total_spent = SumTotals(OrdersOf(w))

\* The row that a step appended to the orders table.
Created == Len(orders') = Len(orders) + 1

NewOrder == orders'[Len(orders')]

\* C2: a confirm at CONFIRMATION creates an order with the product name,
\* the quantity and price * quantity of the session and status pending; and
\* the scenario (Math Book at 1.70, Dara, A1, phone skipped, quantity 3,
\* confirm), unless the database fails, ends with an order Math Book, 3, 5.10,
\* pending, the stored buyer's aggregates grown by 1 order and 5.10.
C2_ConfirmCreatesSnapshotOrder ==
    [][ /\ Created =>
            LET d == user_data[NewOrder.user_id] IN
            /\ NewOrder.product_name = d["product_name"]
            /\ NewOrder.quantity = d["quantity"]
            /\ NewOrder.total_price = d["price"] * d["quantity"]
            /\ NewOrder.status = "pending"
        /\ (progress = Len(Scenario) - 1 /\ progress' = Len(Scenario)
                /\ last'.result # "db_error") =>
            /\ Created
            /\ NewOrder.product_name = "Math Book"
            /\ NewOrder.quantity = 3
            /\ NewOrder.total_price = 510
            /\ NewOrder.status = "pending"
            /\ \A w \in DOMAIN users \cap {NewOrder.user_id} :
                /\ users'[w].total_orders = users[w].total_orders + 1
                /\ users'[w].total_spent = users[w].total_spent + 510
      ]_vars

\* C3: no step changes the total_price, quantity, product name or owner of a
\* stored order, and no step removes one.
C3_OrderFiguresImmutable ==
    [][ /\ Len(orders') >= Len(orders)
        /\ \A i \in 1 .. Len(orders) :
            /\ orders'[i].total_price = orders[i].total_price
            /\ orders'[i].quantity = orders[i].quantity
            /\ orders'[i].product_name = orders[i].product_name
            /\ orders'[i].user_id = orders[i].user_id
            /\ orders'[i].order_id = orders[i].order_id
      ]_vars

\* C3 witness: the first of two orders was placed at the old price, then paid
\* and completed, and stands at its old total under the edited catalog.
C3_Witness ==
    /\ Len(orders) = 2
    /\ catalog = PRODUCTS_EDITED
    /\ orders[1].status = "completed"
    /\ orders[1].payment_method # NULL
    /\ orders[1].total_price = 3 * PRODUCTS[<<"business">>].price
    /\ orders[2].total_price = 3 * PRODUCTS_EDITED[<<"business">>].price

C5_DecidedOrdersStayDecided ==
    [][ \A i \in 1 .. Len(orders) :
            orders[i].status \in {"rejected", "completed"} =>
                orders'[i].status \notin {"pending", "awaiting_verification"}
      ]_vars

\* C6: a step sets an order's status to confirmed, rejected or completed only
\* if it is handle_admin_order_action run on an update sent by ADMIN_ID.
C6_DecisionsOnlyByAdmin ==
    [][ \A i \in 1 .. Len(orders) :
            (orders'[i].status # orders[i].status
                /\ orders'[i].status \in {"confirmed", "rejected", "completed"}) =>
                    /\ last'.handler = "handle_admin_order_action"
                    /\ last'.user = ADMIN_ID
      ]_vars

\* The step ran an administrator operation other than a decision: the
\* /admin command, the note button of the order keyboard, or the text that
\* is attached as the note.
AdminOperation ==
    \/ last'.handler = "admin_panel"
    \/ last'.handler = "handle_admin_order_action" /\ last'.event.data[2] = "note"
    \/ last'.handler = "handle_admin_note" /\ Has(user_data[last'.user], "adding_note_for")

\* C7: an administrator operation run on an update whose sender is not
\* ADMIN_ID answers with the denial and leaves the tables and user_data as
\* they were.
C7_NonAdminRefused ==
    [][ (AdminOperation /\ last'.user # ADMIN_ID) =>
            /\ last'.result = "denied"
            /\ UNCHANGED <<users, orders, products, user_data>>
      ]_vars

\* C8: an order is created only by confirm_order run at CONFIRMATION; a chat
\* reaches NAME by a product selection (or by edit_order of the summary),
\* GROUP from NAME, PHONE from GROUP, QUANTITY from PHONE and CONFIRMATION
\* from QUANTITY; and the step that creates the order ends the conversation.
C8_OrderOnlyAtEndOfFlow ==
    [][ /\ Created =>
            /\ last'.handler = "confirm_order"
            /\ conv[NewOrder.user_id] = CONFIRMATION
            /\ conv'[NewOrder.user_id] = END
        /\ Len(orders') # Len(orders) => Created
        /\ \A u \in Users : conv'[u] # conv[u] =>
            CASE conv'[u] = NAME -> last'.handler \in {"select_product", "confirm_order"}
              [] conv'[u] = GROUP -> conv[u] = NAME
              [] conv'[u] = PHONE -> conv[u] = GROUP
              [] conv'[u] = QUANTITY -> conv[u] = PHONE
              [] conv'[u] = CONFIRMATION -> conv[u] = QUANTITY
              [] OTHER -> TRUE
      ]_vars

\* int() accepts the text and the number is within 1..50.
ValidQuantity(t) == IsInt(t) /\ PyInt(t) >= 1 /\ PyInt(t) <= 50

\* C9: a text that arrives in the quantity state stores q and moves the chat
\* to CONFIRMATION if it is an integer q in 1..50; any other text is answered
\* with one of the three prompts, raises nothing, stores nothing and leaves
\* the chat in the quantity state.
C9_CustomQuantity ==
    [][ (last'.event.kind = "text" /\ last'.user \in Users
            /\ conv[last'.user] = QUANTITY) =>
            LET u == last'.user
                t == last'.event.text
            IN  IF ValidQuantity(t)
                THEN /\ conv'[u] = CONFIRMATION
                     /\ Has(user_data'[u], "quantity")
                     /\ user_data'[u]["quantity"] = PyInt(t)
                ELSE /\ conv'[u] = QUANTITY
                     /\ user_data'[u] = user_data[u]
                     /\ last'.result \in {"not_a_number", "too_small", "too_many"}
      ]_vars

\* C10: for every catalog entry pid, the token product_<pid> is matched by
\* the entry point of the conversation, and select_product run on it from
\* IDLE stores pid with its name, price and glyph and moves the chat to NAME.
C10_ProductTokenRoundTrip ==
    [][ (last'.handler = "select_product" /\ conv[last'.user] = END) =>
            LET u == last'.user
                tok == last'.event.data
                pid == SubSeq(tok, 2, Len(tok))
            IN  /\ EntryPointMatches(tok)
                /\ conv'[u] = NAME
                /\ Has(user_data'[u], "product_id")
                /\ user_data'[u]["product_id"] = pid
                /\ user_data'[u]["product_name"] = catalog[pid].name
                /\ user_data'[u]["price"] = catalog[pid].price
                /\ user_data'[u]["product_emoji"] = catalog[pid].emoji
      ]_vars

\* What a button of the filter or export menu stands for: a period or a
\* status, on the given page.
Meant(page, x) ==
    IF x \in Periods THEN Request(page, <<"all">>, x, NULL)
    ELSE Request(page, Segments(x), NULL, NULL)

\* C11: a token built by the keyboards for a page, status, period and search
\* text (the "none" sentinel standing for an absent filter) is read back by
\* the navigation and export handlers as the same page, status, period and
\* search text.
C11_ConsoleTokensRoundTrip ==
    /\ \A page \in ConsolePages, status \in ConsoleStatuses, date \in ConsoleDates,
          search \in ConsoleSearches :
            (/\ last.handler = "handle_admin_orders_navigation"
             /\ last.event.data = AdminOrdersToken(page, status, date, search))
            => last.request = Request(page, Segments(status), date, search)
    /\ \A x \in FilterButtons :
            (/\ last.handler = "handle_admin_orders_navigation"
             /\ last.event.data = FilterToken(x))
            => last.request = Meant(1, x)
    /\ \A x \in ExportButtons \ {"users"} :
            (/\ last.handler = "handle_export_command"
             /\ last.event.data = ExportToken(x))
            => last.request = Meant(NULL, x)

\* A request of the order list has been answered.
Viewed == last.handler = "handle_admin_orders_navigation" /\ last.view.result # ""

\* The number of rows get_orders_paginated returns on pages p, p + 1, ...
RECURSIVE RowsFrom(_, _, _, _)
RowsFrom(p, status_filter, date_filter, search_query) ==
    LET rows == get_orders_paginated(Db, p, status_filter, date_filter, search_query) IN
    IF Len(rows) = 0 THEN 0
    ELSE Len(rows) + RowsFrom(p + 1, status_filter, date_filter, search_query)

\* C12: for a status and period filter and no search text, get_orders_count
\* equals the number of orders get_orders_paginated returns over all pages.
C12_CountEqualsListed ==
    (Viewed /\ last.request.search_query = NULL)
    => last.view.total_orders
         = RowsFrom(1, last.request.status_filter, last.request.date_filter, NULL)

\* Order o satisfies the filters of request r: its status and period, and a
\* search text found in its id, its buyer's name or group, or its product.
Satisfies(o, r) ==
    /\ StatusCondition(o, r.status_filter)
    /\ DateCondition(o, r.date_filter)
    /\ (r.search_query # NULL
          => \/ IdLike(o.order_id, r.search_query)
             \/ Like(o.product_name, r.search_query)
             \/ /\ o.user_id \in DOMAIN users
                /\ \/ Like(FirstNames[o.user_id], r.search_query)
                   \/ Like(users[o.user_id].group_name, r.search_query))

\* C13: when at least one stored order satisfies every filter of the
\* request, the list shown is not empty (a page beyond the last one shows
\* the last page).
C13_MatchingOrdersAreShown ==
    (Viewed /\ \E i \in DOMAIN orders : Satisfies(orders[i], last.request))
    => (last.view.result = "list" /\ Len(last.view.window) > 0)

\* C14: the number of pages is max(1, ceil(count / ORDERS_PER_PAGE)) and the
\* page shown lies in 1 .. total_pages: a requested page below 1 becomes 1,
\* one above the last becomes the last.  With 23 orders of registered buyers
\* and no filter there are 3 pages and a request for page 5 shows page 3,
\* the 3 oldest orders.
C14_PageWithinRange ==
    Viewed =>
        /\ last.view.total_pages = Max(1, Ceil(last.view.total_orders))
        /\ last.view.page \in 1 .. last.view.total_pages
        /\ last.request.page < 1 => last.view.page = 1
        /\ last.request.page > last.view.total_pages
                => last.view.page = last.view.total_pages
        /\ (/\ Len(orders) = 23
            /\ \A i \in DOMAIN orders : orders[i].user_id \in DOMAIN users
            /\ last.request = Request(5, <<"all">>, NULL, NULL))
           => /\ last.view.total_pages = 3
              /\ last.view.page = 3
              /\ last.view.window = <<3, 2, 1>>

\* The pages of the list for request r, page 1 first, up to one page past
\* the stored orders.
Pages(r) ==
    [p \in 1 .. Ceil(Len(orders)) + 1 |->
        get_orders_paginated(Db, p, r.status_filter, r.date_filter, r.search_query)]

\* Where order id appears in the pages.
Places(pages, id) ==
    {<<p, k>> \in (DOMAIN pages) \X (1 .. ORDERS_PER_PAGE) :
        k <= Len(pages[p]) /\ pages[p][k].order_id = id}

\* C15: every order get_orders_paginated returns satisfies the status and
\* period filters and the search text; every stored order that satisfies
\* them appears on exactly one page; the pages list the orders newest first.
C15_PagesPartitionMatches ==
    Viewed =>
        LET r == last.request
            pages == Pages(r)
        IN  /\ \A p \in DOMAIN pages : \A k \in DOMAIN pages[p] : Satisfies(pages[p][k], r)
            /\ \A i \in DOMAIN orders :
                    Satisfies(orders[i], r) => Cardinality(Places(pages, orders[i].order_id)) = 1
            /\ \A p \in DOMAIN pages : \A k \in DOMAIN pages[p] :
                    /\ k > 1 => pages[p][k - 1].order_date >= pages[p][k].order_date
                    /\ (k = 1 /\ p > 1 /\ Len(pages[p - 1]) > 0)
                        => pages[p - 1][Len(pages[p - 1])].order_date >= pages[p][k].order_date

\* Steps of the handler of the last update.
Attempted(trace, op, to) == \E k \in DOMAIN trace : trace[k].op = op /\ trace[k].to = to

Succeeded(trace, op, to) == \E k \in DOMAIN trace : trace[k] = Step(op, to, TRUE)

Failed(trace, op, to) == \E k \in DOMAIN trace : trace[k] = Step(op, to, FALSE)

\* C18: once confirm_order has committed an order, the buyer is sent the
\* payment instructions: the QR image when the image was fetched, the
\* text-only variant otherwise; the order stays stored.
C18_InstructionsAlwaysDelivered ==
    [][Created =>
        LET t == last'.trace
            u == last'.user
        IN  /\ last'.handler = "confirm_order"
            /\ IF Succeeded(t, "requests.get", 0)
               THEN Succeeded(t, "reply_photo", u)
               ELSE Succeeded(t, "edit_message_text", u)
            /\ NewOrder.user_id = u]_vars

\* C19: when the new-order message to the administrator cannot be sent, the
\* failure is swallowed: the order and the aggregates create_order wrote
\* remain, no error message reaches the buyer and the conversation ends.
C19_NotificationFailureSwallowed ==
    [][(Created /\ Failed(last'.trace, "send_message", ADMIN_ID)) =>
        LET u == last'.user
            d == user_data[u]
            r == create_order(Db, u, d["product_name"], d["quantity"],
                              d["price"] * d["quantity"], 0)
        IN  /\ users' = r.db.users /\ orders' = r.db.orders /\ products' = r.db.products
            /\ ~Attempted(last'.trace, "error_handler", u)
            /\ conv'[u] = END]_vars

\* An order has been committed, the message to the administrator failed
\* and the buyer's conversation is over.
C19_Witness ==
    /\ last.handler = "confirm_order"
    /\ Failed(last.trace, "send_message", ADMIN_ID)
    /\ \E i \in DOMAIN orders : orders[i].user_id = last.user
    /\ conv[last.user] = END

\* C20: confirm_order commits the order first, then attempts to deliver the
\* payment instructions, then attempts to notify the administrator; the
\* notification is attempted for every committed order, whether or not the
\* delivery succeeded.
C20_CommitDeliverNotify ==
    [][Created =>
        LET t == last'.trace IN
        \E i, j, k \in DOMAIN t :
            /\ i < j /\ j < k
            /\ t[i] = Step("create_order", 0, TRUE)
            /\ t[j].op = "requests.get"
            /\ t[k].op = "send_message" /\ t[k].to = ADMIN_ID]_vars

\* The proof handler has just run for buyer u on an image.
ProofStep(u) ==
    /\ last'.handler = "handle_payment_proof"
    /\ last'.user = u
    /\ last' # last

\* C16: an image sent while the marker is armed for order k, and forwarded
\* with every send succeeding: order k is awaiting_verification with the
\* payment method and the proof marker set, the buyer is sent a receipt, the
\* administrator is sent a review message with the confirm and reject
\* buttons of order k, and the marker is disarmed.
C16_ProofForwarded ==
    [][\A u \in Buyers :
        (/\ ProofStep(u)
         /\ Has(user_data[u], "awaiting_proof_for")
         /\ Succeeded(last'.trace, "send_photo", ADMIN_ID)
         /\ \A i \in DOMAIN last'.trace : last'.trace[i].ok)
        => LET k == user_data[u]["awaiting_proof_for"]
               t == last'.trace
           IN  /\ \A i \in DOMAIN orders' :
                      orders'[i].order_id = SqlOrderId(k)
                      => /\ orders'[i].status = "awaiting_verification"
                         /\ orders'[i].payment_method = "Bank Transfer"
                         /\ orders'[i].payment_proof = ProofMarker
               /\ last'.result = "received"
               /\ Succeeded(t, "reply_text", u)
               /\ \E i \in DOMAIN t :
                      /\ t[i].op = "send_message" /\ t[i].to = ADMIN_ID /\ t[i].ok
                      /\ t[i].reply_markup
                           = {<<"admin", "confirm", k>>, <<"admin", "reject", k>>}
               /\ ~Has(user_data'[u], "awaiting_proof_for")]_vars

\* C17: in main.py an image sent while no marker is armed changes no order,
\* arms no marker and forwards nothing; the only effect is the reply asking
\* to choose the proof submission first.
C17_ImageWithoutMarker ==
    [][\A u \in Buyers :
        (/\ ProofStep(u)
         /\ variant = "main"
         /\ ~Has(user_data[u], "awaiting_proof_for"))
        => /\ UNCHANGED <<users, orders, products, conv, user_data>>
           /\ last'.result = "select_first"
           /\ last'.trace = <<Step("reply_text", u, TRUE)>>]_vars

\* main.py has answered an image of a buyer who has a pending order and no
\* marker.
C17_Witness ==
    /\ variant = "main"
    /\ last.handler = "handle_payment_proof"
    /\ last.result = "select_first"
    /\ Len(PendingOrders(Db, last.user)) > 0
    /\ ~Has(user_data[last.user], "awaiting_proof_for")

\* handle_admin_order_action has written a status in this step.
AdminDecision ==
    /\ updates' = updates + 1
    /\ last'.handler = "handle_admin_order_action"

\* The order id and the action named by the administrator's last button.
Target(l) == PyInt(l.event.data[3])

ActOf(l) == l.event.data[2]

\* C21: when confirm, reject or complete is applied to a stored order, the
\* status and the note are written before the message to the buyer is
\* attempted; when that message fails the status and the note stay and the
\* failure is not reported as an error.
C21_StatusPersistedBeforeNotification ==
    [][(AdminDecision /\ Target(last') \in DOMAIN orders) =>
        LET k == Target(last')
            act == ActOf(last')
            t == last'.trace
            buyer == orders[k].user_id
        IN  /\ orders'[k].status = StatusOf(act)
            /\ orders'[k].admin_notes = NoteOf(act)
            /\ \A i \in DOMAIN t :
                    (t[i].op = "send_message" /\ t[i].to = buyer) =>
                        \E j \in 1 .. i - 1 : t[j] = Step("update_order_status", 0, TRUE)
            /\ Failed(t, "send_message", buyer) =>
                    /\ last'.result = StatusOf(act)
                    /\ ~Attempted(t, "error_handler", last'.user)]_vars

\* A stored order has been decided and the message to its buyer failed.
C21_Witness ==
    /\ last.handler = "handle_admin_order_action"
    /\ last.result \in {"confirmed", "rejected", "completed"}
    /\ Target(last) \in DOMAIN orders
    /\ Failed(last.trace, "send_message", orders[Target(last)].user_id)
    /\ orders[Target(last)].status = last.result
    /\ orders[Target(last)].admin_notes = NoteOf(ActOf(last))

\* C22: when confirm, reject or complete names an id under which no order is
\* stored, no order changes and the handler reports that the order was not
\* found, never that the action succeeded.
C22_MissingOrderNotFound ==
    [][(AdminDecision /\ Target(last') \notin DOMAIN orders) =>
        /\ orders' = orders
        /\ last'.result = "not_found"
        /\ last'.result \notin {"confirmed", "rejected", "completed"}]_vars

\* confirm_order has answered the edit button of buyer u.
EditStep(u) ==
    /\ conv[u] = CONFIRMATION
    /\ last'.handler = "confirm_order"
    /\ last'.user = u
    /\ last'.result = "edit"

\* C23: edit at CONFIRMATION moves the buyer's conversation to NAME with the
\* product snapshot kept, creates no order and changes no aggregate; a later
\* confirm creates the order from the product, quantity and price of the
\* session as it then is.
C23_EditReturnsToName ==
    [][\A u \in Buyers :
        /\ EditStep(u) =>
              /\ conv'[u] = NAME
              /\ \A key \in {"product_id", "product_name", "price"} :
                    /\ Has(user_data'[u], key)
                    /\ user_data'[u][key] = user_data[u][key]
              /\ UNCHANGED <<users, orders, products>>
        /\ (Created /\ last'.user = u /\ Has(user_data[u], "editing")) =>
              /\ NewOrder.product_name = user_data[u]["product_name"]
              /\ NewOrder.quantity = user_data[u]["quantity"]
              /\ NewOrder.total_price = user_data[u]["price"] * user_data[u]["quantity"]
              /\ NewOrder.user_id = u]_vars

\* C24: at most one free-text input of the console is armed for a user: the
\* search capture (awaiting_search) and the note capture (adding_note_for)
\* are never armed together, arming one disarms the other.
C24_OneFreeTextInputArmed ==
    \A u \in Users :
        ~(/\ Has(user_data[u], "adding_note_for")
          /\ Has(user_data[u], "awaiting_search")
          /\ user_data[u]["awaiting_search"] = TRUE)

\* The sum of total_price over the orders whose index is in the set S.
RECURSIVE TotalOver(_)
TotalOver(S) ==
    IF S = {} THEN 0
    ELSE LET i == CHOOSE i \in S : TRUE
         IN  orders[i].total_price + TotalOver(S \ {i})

\* C25: the revenue the admin panel prints is the sum of total_price over
\* exactly the stored orders whose status is completed, 0 when there is none.
C25_RevenueIsCompletedTotal ==
    (last.handler = "admin_panel" /\ last.result = "panel") =>
        last.trace[1].stats.revenue
            = TotalOver({i \in DOMAIN orders : orders[i].status = "completed"})

\* The panel has been shown while one order is completed and another is not.
C25_Witness ==
    /\ last.handler = "admin_panel"
    /\ last.result = "panel"
    /\ last.trace[1].stats.revenue > 0
    /\ \E i, j \in DOMAIN orders :
            orders[i].status = "completed" /\ orders[j].status # "completed"

\* C26: the empty listing names the search when a search string is present,
\* otherwise the status when the status filter is not all, otherwise the
\* period; pending with week and no match gives the status text.
C26_EmptyListingNamesFilter ==
    (Viewed /\ last.view.result = "no_orders") =>
        LET r == last.request
            searching == r.search_query # NULL /\ r.search_query # ""
            by_status == r.status_filter # <<"all">>
        IN  /\ searching => last.view.empty = "search"
            /\ (~searching /\ by_status) => last.view.empty = "status"
            /\ (~searching /\ ~by_status /\ r.date_filter # NULL) =>
                    last.view.empty = "period"
            /\ (r.status_filter = <<"pending">> /\ r.date_filter = "week" /\ ~searching) =>
                    last.view.empty \notin {"period", "search", "plain"}

\* The pending orders of the week were asked for and there is none.
C26_Witness ==
    /\ Viewed
    /\ last.view.result = "no_orders"
    /\ last.request.status_filter = <<"pending">>
    /\ last.request.date_filter = "week"
    /\ last.request.search_query = NULL
    /\ last.view.empty = "status"

\* The order ids get_orders_paginated returns on pages p, p + 1, ... up to
\* the first empty page, one page after the other.
RECURSIVE AllPagesFrom(_, _, _)
AllPagesFrom(p, status_filter, date_filter) ==
    LET rows == get_orders_paginated(Db, p, status_filter, date_filter, NULL) IN
    IF rows = <<>> THEN <<>>
    ELSE [k \in DOMAIN rows |-> rows[k].order_id]
            \o AllPagesFrom(p + 1, status_filter, date_filter)

\* C27: the sheet export_to_excel writes holds exactly the orders, in the
\* same newest-first order, that get_orders_paginated returns over all its
\* pages for the same status and period filters and no search.
C27_ExportEqualsAllPages ==
    (last.result = "export") =>
        last.view.window
            = AllPagesFrom(1, last.request.status_filter, last.request.date_filter)

\* A filtered sheet of more than one page has been exported.
C27_Witness ==
    /\ last.result = "export"
    /\ Len(last.view.window) > ORDERS_PER_PAGE
    /\ Len(last.view.window) < Len(orders)
    /\ last.request.date_filter # NULL

\* C28: confirm, reject and complete are accepted on a stored order whatever
\* its status, rejected and completed included, and leave it in the action's
\* status with the action's note; the same action applied again right after
\* leaves the status and the note it left the first time.
C28_DecisionsOverwriteAndRepeat ==
    [][(AdminDecision /\ Target(last') \in DOMAIN orders) =>
        LET k == Target(last')
            act == ActOf(last')
        IN  /\ orders'[k].status = StatusOf(act)
            /\ orders'[k].admin_notes = NoteOf(act)
            /\ (/\ last.handler = "handle_admin_order_action"
                /\ last.event = last'.event
                /\ orders[k].status = StatusOf(act)) =>
                    /\ orders'[k].status = orders[k].status
                    /\ orders'[k].admin_notes = orders[k].admin_notes]_vars

\* The last of the allowed status writes is an administrator's action on a
\* stored order that holds a payment proof.
C28_Witness ==
    /\ updates = MaxUpdates
    /\ last.handler = "handle_admin_order_action"
    /\ last.result \in {"confirmed", "rejected", "completed"}
    /\ Target(last) \in DOMAIN orders
    /\ orders[Target(last)].status = last.result
    /\ orders[Target(last)].admin_notes = NoteOf(ActOf(last))
    /\ orders[Target(last)].payment_proof # NULL

\* handle_admin_note has run on a text of user u.
NoteStep(u) ==
    /\ last'.handler = "handle_admin_note"
    /\ last'.user = u
    /\ last'.event.kind = "text"

CustomChosen(u) ==
    /\ last.user = u
    /\ \/ last.handler = "select_quantity" /\ last.result = "ask_custom"
       \/ last.handler = "get_custom_quantity" /\ last.result # "summary"

\* C30: a typed text is taken as the quantity only after qty_custom: at
\* QUANTITY, a text of a buyer who has not been asked to type a quantity
\* sets no quantity and leaves the conversation at QUANTITY.
C30_TypedQuantityOnlyAfterCustom ==
    [][\A u \in Buyers :
        (/\ conv[u] = QUANTITY
         /\ ~CustomChosen(u)
         /\ last'.handler = "get_custom_quantity"
         /\ last'.user = u)
        => /\ user_data'[u] = user_data[u]
           /\ conv'[u] = QUANTITY]_vars

\* C31: every stored order has a quantity from 1 to 50, whether it came from
\* a qty_<n> token or from typed text; a qty_<n> token with n outside 1..9
\* sets no quantity, does not advance the conversation and raises nothing.
C31_QuantityWithinBounds ==
    [][/\ \A i \in DOMAIN orders' : orders'[i].quantity \in 1 .. 50
       /\ \A u \in Buyers :
            (/\ conv[u] = QUANTITY
             /\ last'.handler = "select_quantity"
             /\ last'.user = u
             /\ last'.event.data # <<"qty", "custom">>
             /\ IsInt(last'.event.data[2])
             /\ PyInt(last'.event.data[2]) \notin 1 .. 9)
            => /\ user_data'[u] = user_data[u]
               /\ conv'[u] = QUANTITY
               /\ last'.result # "ValueError"]_vars

\* C32: a flow creates at most one order: once a confirm of buyer u has
\* committed an order, the next update handled, being of the same flow, does
\* not commit another order, whether or not the delivery after the first
\* commit succeeded.
C32_OneOrderPerFlow ==
    [][\A u \in Buyers :
        (/\ last.handler = "confirm_order"
         /\ last.user = u
         /\ last.result \in Deliveries
         /\ last'.user = u)
        => /\ ~Created
           /\ u \in DOMAIN users => users'[u] = users[u]]_vars

\* C33: whatever the order in which the confirms of two users are handled,
\* each commits an order under an id no stored order has, and the sender's
\* total_orders grows by one and total_spent by the order's total, the
\* other users' rows staying as they were.
C33_ConfirmsOfTwoUsers ==
    [][\A u \in Users :
        (Created /\ last'.user = u) =>
            /\ NewOrder.user_id = u
            /\ \A i \in DOMAIN orders : orders[i].order_id # NewOrder.order_id
            /\ u \in DOMAIN users
            /\ users'[u].total_orders = users[u].total_orders + 1
            /\ users'[u].total_spent = users[u].total_spent + NewOrder.total_price
            /\ \A w \in DOMAIN users \ {u} : users'[w] = users[w]]_vars

\* C34: confirm_order and the pay_khqr_ branch of handle_payment_option run
\* to completion whatever the server of the QR image does: no handler is left
\* inside the fetch, and after a confirm that committed an order the buyer's
\* conversation is over.
C34_FetchIsGivenUp ==
    /\ ~Stalled
    /\ (last.handler = "confirm_order" /\ \E i \in DOMAIN orders : orders[i].user_id = last.user)
            => conv[last.user] = END

\* The administrator's search capture is armed and the note capture is not.
SearchArmed ==
    /\ Has(user_data[ADMIN_ID], "awaiting_search")
    /\ user_data[ADMIN_ID]["awaiting_search"] = TRUE
    /\ ~Has(user_data[ADMIN_ID], "adding_note_for")

\* C35: with the search capture armed and no note capture armed, the next
\* text of the administrator is taken by handle_admin_search as the search
\* keyword: the marker is disarmed and the filtered order list is shown.
C35_SearchTextConsumed ==
    [][(/\ SearchArmed
        /\ last'.user = ADMIN_ID
        /\ last'.event.kind = "text")
       => /\ last'.handler = "handle_admin_search"
          /\ last'.result \in {"list", "no_orders"}
          /\ user_data'[ADMIN_ID]["awaiting_search"] = FALSE]_vars

\* The buttons of a kind in a row, and the page a button's token names.
OfKind(row, kind) == SelectSeq(row, LAMBDA b : b.kind = kind)

PageOf(b) == PyInt(b.data[3])

\* The page-jump rows of a keyboard: those that hold the current-page button.
JumpRows(keyboard) ==
    SelectSeq(keyboard, LAMBDA row : \E k \in DOMAIN row : row[k].kind = "current")

\* The page each button of a jump row stands for.
JumpPages(row, page) ==
    [k \in DOMAIN row |-> IF row[k].kind = "current" THEN page ELSE PageOf(row[k])]

\* C36: for 1 <= page <= total_pages, with more than five pages the keyboard
\* has one page-number row, holding exactly the pages max(1, page - 2) ..
\* min(total_pages, page + 2) in order, each within 1 .. total_pages and the
\* current page among them; with five pages or fewer it has none.  Previous
\* is present exactly when page > 1 and names page - 1, Next exactly when
\* page < total_pages and names page + 1.
C36_PaginationKeyboard ==
    (last.handler = "show_admin_orders" /\ last.result = "keyboard") =>
        LET page == last.page
            total == last.total_pages
            nav == last.keyboard[1]
            rows == JumpRows(last.keyboard)
            lo == IF page - 2 >= 1 THEN page - 2 ELSE 1
            hi == IF page + 2 <= total THEN page + 2 ELSE total
        IN  /\ IF total > 5
               THEN /\ Len(rows) = 1
                    /\ Len(rows[1]) = hi - lo + 1
                    /\ \A k \in DOMAIN rows[1] :
                            /\ JumpPages(rows[1], page)[k] = lo + k - 1
                            /\ JumpPages(rows[1], page)[k] \in 1 .. total
                    /\ \E k \in DOMAIN rows[1] : rows[1][k].kind = "current"
               ELSE Len(rows) = 0
            /\ Len(OfKind(nav, "previous")) = (IF page > 1 THEN 1 ELSE 0)
            /\ Len(OfKind(nav, "next")) = (IF page < total THEN 1 ELSE 0)
            /\ page > 1 => PageOf(OfKind(nav, "previous")[1]) = page - 1
            /\ page < total => PageOf(OfKind(nav, "next")[1]) = page + 1

\* A keyboard has been built for the last of more than five pages.
C36_Witness ==
    /\ last.handler = "show_admin_orders"
    /\ last.result = "keyboard"
    /\ last.total_pages > 5
    /\ last.page = last.total_pages
    /\ Len(JumpRows(last.keyboard)) = 1
    /\ Len(JumpRows(last.keyboard)[1]) = 3

\* The stored orders of user u that still wait for a payment or its review.
OpenOrders(u) ==
    {i \in DOMAIN orders :
        orders[i].user_id = u /\ orders[i].status \in {"pending", "awaiting_verification"}}

C38_PaymentOnlyByOwner ==
    [][\A u \in Buyers :
        ProofStep(u) =>
            \A i \in DOMAIN orders :
                (\/ orders'[i].payment_method # orders[i].payment_method
                 \/ orders'[i].payment_proof # orders[i].payment_proof
                 \/ orders'[i].status # orders[i].status)
                => orders[i].user_id = u]_vars

\* C39: the owner of every stored order is a stored user, also when the
\* buyer began the order flow without having sent /start.
C39_OrderOwnerStored ==
    \A i \in DOMAIN orders : orders[i].user_id \in DOMAIN users

\* The image of user u handled last was not forwarded to the administrator.
ForwardFailed(l, u) ==
    /\ l.handler = "handle_payment_proof"
    /\ l.user = u
    /\ Failed(l.trace, "send_photo", ADMIN_ID)

\* C40: when forwarding the image to the administrator fails, no order
\* changes, the marker stays armed for the same order, the sender is told to
\* try again and not that the proof was received; the image sent again and
\* forwarded is attached to that order.
C40_ForwardFailureKeepsMarker ==
    [][\A u \in Users :
        /\ (ProofStep(u) /\ ForwardFailed(last', u)) =>
              /\ orders' = orders
              /\ Has(user_data'[u], "awaiting_proof_for")
              /\ Has(user_data[u], "awaiting_proof_for") =>
                    user_data'[u]["awaiting_proof_for"] = user_data[u]["awaiting_proof_for"]
              /\ last'.result = "try_again"
              /\ last'.trace = <<Step("send_photo", ADMIN_ID, FALSE), Step("reply_text", u, TRUE)>>
        /\ (/\ ForwardFailed(last, u)
            /\ ProofStep(u)
            /\ Succeeded(last'.trace, "send_photo", ADMIN_ID)) =>
              LET k == SqlOrderId(user_data[u]["awaiting_proof_for"]) IN
              \A i \in DOMAIN orders' :
                    orders'[i].order_id = k =>
                        /\ orders'[i].status = "awaiting_verification"
                        /\ orders'[i].payment_proof = ProofMarker]_vars

\* An image was not forwarded: its sender is still armed for a stored order
\* of theirs, which is pending without a proof.
C40_Witness ==
    /\ last.handler = "handle_payment_proof"
    /\ last.result = "try_again"
    /\ Failed(last.trace, "send_photo", ADMIN_ID)
    /\ Has(user_data[last.user], "awaiting_proof_for")
    /\ \E i \in DOMAIN orders :
            /\ orders[i].order_id = SqlOrderId(user_data[last.user]["awaiting_proof_for"])
            /\ orders[i].user_id = last.user
            /\ orders[i].status = "pending"
            /\ orders[i].payment_proof = NULL

====
